---- MODULE Spec2Model ----
(***************************************************************************)
(* A model of forgor's replication engine (internal/sync), its state store *)
(* (SyncState over bbolt), the application commands that drive it          *)
(* (internal/tui App) and the local vault store (internal/storage).        *)
(*                                                                         *)
(* Devices are numbered; the byte-wise order of the 64-hex device ids is   *)
(* the order of the numbers.  A SHA-256 digest is a tagged copy of the     *)
(* bytes it digests, an Ed25519 signature names its signer and the bytes   *)
(* it covers, and an AEAD ciphertext names the key and nonce that open it. *)
(* The coordination relay is not part of the repository: it is modelled    *)
(* from the interface the specification gives for it, as a per-vault       *)
(* append-only log that stores what is POSTed and hands it back in order.  *)
(***************************************************************************)
EXTENDS Integers, Sequences, FiniteSets, TLC

\* ---------------------------------------------------------------- bounds

\* POSTs of events that the relay may fail to store, over all devices.
MaxFailures == 1
\* The relay stops accepting events for a vault at this log length.
MaxEvents == 2
\* Versions (content + updated_at) an entry id can take.
MaxVer == 1
\* Membership-ledger length at which the owner stops admitting devices.
MaxMemberSeq == 3
\* POSTs that may fail while one device works off its pending queue.
MaxFlushFailures == 4
\* Vaults a device creates, and invites the relay stores.
MaxVaults == 2
MaxInvites == 2
\* Draws a device takes from its random source while it manages members.
MaxDraws == 8

Devices == {1, 2, 3}
EntryIDs == {1, 2}
Ops == {"upsert", "delete"}
Entries == [id : EntryIDs, ver : 1..MaxVer]

\* NewUUID: the n-th draw of device d's random source.
NewUUID(d, n) == <<"uuid", d, n>>
ZeroUUID == <<"uuid", 0, 0>>
\* What stands for "vault_id not set".
NoVault == ZeroUUID
NoDevice == 0

\* ------------------------------------------------------- generic helpers

Max(a, b) == IF a > b THEN a ELSE b

\* Go maps keyed by entry id (and bbolt buckets keyed by entry id) are
\* functions whose domain is the set of keys present.
EmptyMap == << >>
Has(m, k) == k \in DOMAIN m
Put(m, k, v) == [x \in (DOMAIN m) \cup {k} |-> IF x = k THEN v ELSE m[x]]
Del(m, k) == [x \in (DOMAIN m) \ {k} |-> m[x]]
Range(m) == {m[x] : x \in DOMAIN m}

\* The keys of a map in ascending order: bbolt's ForEach walks a bucket in
\* key order.
RECURSIVE SortedKeys(_)
SortedKeys(S) ==
    IF S = {} THEN << >>
    ELSE LET k == CHOOSE x \in S : \A y \in S : x <= y
         IN <<k>> \o SortedKeys(S \ {k})

\* --------------------------------------------------------- crypto model

ZeroHash == <<"sha256">>
Sha256(bytes) == <<"sha256", bytes>>

Zero64 == [by |-> NoDevice, over |-> << >>]
\* crypto.Sign: the private signing key of device d is d's own.
Sign(d, bytes) == [by |-> d, over |-> bytes]
\* crypto.Verify under the public signing key of device d.
Verify_SignerOnly(d, bytes, sig) == sig.by = d
Verify(d, bytes, sig) == sig.by = d /\ sig.over = bytes

\* The 32 random bytes CreateVault draws as vault key.
NewVaultKey(d, n) == <<"vault_key", d, n>>
NoKey == <<"vault_key", 0, 0>>

deriveEventKey(vaultKey, keyEpoch) == <<"hkdf", vaultKey, keyEpoch>>
deriveLegacyEventKey(vaultKey, keyEpoch) == <<"sha256", vaultKey, keyEpoch>>

\* aead.Seal / secretbox.Seal: what comes out opens only under the same
\* scheme, key and nonce.
Seal(schemeName, key, nonce, plaintext) ==
    [scheme |-> schemeName, key |-> key, nonce |-> nonce, pt |-> plaintext]

decryptEventPayloadXChaCha(vaultKey, keyEpoch, nonce, ct) ==
    LET k == deriveEventKey(vaultKey, keyEpoch)
    IN IF ct.scheme = "v2" /\ ct.key = k /\ ct.nonce = nonce
       THEN [ok |-> TRUE, pt |-> ct.pt]
       ELSE [ok |-> FALSE, pt |-> << >>]

decryptEventPayloadLegacy(vaultKey, keyEpoch, nonce, ct) ==
    LET k == deriveLegacyEventKey(vaultKey, keyEpoch)
    IN IF ct.scheme = "legacy" /\ ct.key = k /\ ct.nonce = nonce
       THEN [ok |-> TRUE, pt |-> ct.pt]
       ELSE [ok |-> FALSE, pt |-> << >>]

\* json.Marshal / json.Unmarshal of the {op, entry} payload.
MarshalPayload(op, entry) == <<"json", op, entry>>
UnmarshalPayload(pt) == [op |-> pt[2], entry |-> pt[3]]

\* ------------------------------------------- canonical signature bytes

SignBytesEvent(eventID, vaultID, deviceID, counter, lamport, keyEpoch, prevHash, nonce, ciphertext) ==
    <<"EVENT", eventID, vaultID, deviceID, counter, lamport, keyEpoch,
      prevHash, nonce, ciphertext>>

SignBytesMemberAdd(memberEventID, vaultID, memberSeq, prevHash, actorID, subjectID, inviteID, claimSig, subjectBundleSig, subjectPubkeySign, subjectPubkeyBox) ==
    <<"MEMBER_ADD", memberEventID, vaultID, memberSeq, prevHash, actorID,
      subjectID, inviteID, claimSig, subjectBundleSig, subjectPubkeySign,
      subjectPubkeyBox>>

SignBytesDeviceBundle(deviceID, pubkeySign, pubkeyBox) ==
    <<"DEVICE_BUNDLE", deviceID, pubkeySign, pubkeyBox>>

SignBytesInviteClaim(inviteID, vaultID, deviceID) ==
    <<"INVITE_CLAIM", inviteID, vaultID, deviceID>>

EventSignBytes(ev) ==
    SignBytesEvent(ev.event_id, ev.vault_id, ev.device_id, ev.counter,
                   ev.lamport, ev.key_epoch, ev.prev_hash, ev.nonce,
                   ev.ciphertext)

\* ------------------------------------------------- sync state store

\* The buckets of one device's state store.  A scalar that was never set
\* (or was deleted by ClearVaultState) holds the value its getter returns
\* for a missing key; vault_id and owner_device_id have getters that fail
\* on a missing key, which NoVault and NoDevice stand for.
EmptyHead == [counter |-> 0, hash |-> ZeroHash]

NoDeviceKeys == << >>

\* sync.GenerateDeviceKeys: both key pairs and the device id, which is the
\* hash of the public signing key, come from draw n of the random source.
GenerateDeviceKeys(n) == <<"device_keys", n>>

FreshState ==
    [has_keys |-> FALSE, device_keys |-> NoDeviceKeys, server_url |-> FALSE,
     vault_id |-> NoVault, vault_key |-> NoKey, key_epoch |-> 0,
     owner |-> NoDevice, member_seq |-> 0, member_head_hash |-> ZeroHash,
     sync_cursor |-> 0, lamport |-> 0,
     members |-> EmptyMap, heads |-> EmptyMap,
     pending |-> EmptyMap, scheme |-> EmptyMap]

SetServerURL(s) == [s EXCEPT !.server_url = TRUE]

\* GetDeviceKeys fails while no keys are stored.
GetDeviceKeys(s) == [ok |-> s.has_keys, keys |-> s.device_keys]

SetDeviceKeys(s, keys) == [s EXCEPT !.has_keys = TRUE, !.device_keys = keys]

\* App.initDeviceKeysIfNeeded.
initDeviceKeysIfNeeded_Always(s, n) == SetDeviceKeys(s, GenerateDeviceKeys(n))
initDeviceKeysIfNeeded(s, n) ==
    IF GetDeviceKeys(s).ok THEN s
    ELSE SetDeviceKeys(s, GenerateDeviceKeys(n))

GetEventHead(s, deviceID) ==
    IF Has(s.heads, deviceID) THEN s.heads[deviceID] ELSE EmptyHead

SetEventHead(s, deviceID, head) ==
    [s EXCEPT !.heads = Put(@, deviceID, head)]

GetMembershipHead(s) ==
    [member_seq |-> s.member_seq, member_head_hash |-> s.member_head_hash]

SetMembershipHead(s, seq, hash) ==
    [s EXCEPT !.member_seq = seq, !.member_head_hash = hash]

SetVerifiedMember(s, deviceID, pubSign, pubBox, epoch) ==
    [s EXCEPT !.members =
        Put(@, deviceID, [pubkey_sign |-> pubSign, pubkey_box |-> pubBox,
                          key_epoch |-> epoch])]

ClearVerifiedMembers(s) == [s EXCEPT !.members = EmptyMap]

ClearPendingEntries(s) == [s EXCEPT !.pending = EmptyMap]

ClearEventHeads(s) == [s EXCEPT !.heads = EmptyMap]

\* The meta keys of the vault are deleted in one transaction; server_url
\* and the device keys have other keys and stay.
ClearVaultState_KeepLamport(s) ==
    [s EXCEPT !.vault_id = NoVault, !.vault_key = NoKey, !.key_epoch = 0,
              !.owner = NoDevice, !.member_seq = 0,
              !.member_head_hash = ZeroHash, !.sync_cursor = 0]
ClearVaultState(s) ==
    [s EXCEPT !.vault_id = NoVault, !.vault_key = NoKey, !.key_epoch = 0,
              !.owner = NoDevice, !.member_seq = 0,
              !.member_head_hash = ZeroHash, !.sync_cursor = 0,
              !.lamport = 0]

\* One read-modify-write transaction; the caller gets s.lamport of the result.
IncrementLamport_NoBump(s) == s
IncrementLamport(s) == [s EXCEPT !.lamport = @ + 1]

UpdateLamport(s, observed) ==
    [s EXCEPT !.lamport = IF observed > @ THEN observed + 1 ELSE @ + 1]

SetSyncCursor(s, cursor) == [s EXCEPT !.sync_cursor = cursor]

AddPendingEntry(s, op, entry) ==
    [s EXCEPT !.pending = Put(@, entry.id, [op |-> op, entry |-> entry])]

RemovePendingEntry(s, entryID) == [s EXCEPT !.pending = Del(@, entryID)]

\* The queue as ForEach yields it: in key order.
GetPendingEntries(s) ==
    LET keys == SortedKeys(DOMAIN s.pending)
    IN [i \in 1..Len(keys) |-> s.pending[keys[i]]]

SetEntryScheme(s, entryID, name) == [s EXCEPT !.scheme = Put(@, entryID, name)]
RemoveEntryScheme(s, entryID) == [s EXCEPT !.scheme = Del(@, entryID)]

\* ------------------------------------------------------- engine: push

\* encryptEventPayload: always the XChaCha20 scheme under the epoch key.
encryptEventPayload_NextEpoch(s, op, entry, nonce) ==
    Seal("v2", deriveEventKey(s.vault_key, s.key_epoch + 1), nonce,
         MarshalPayload(op, entry))
encryptEventPayload(s, op, entry, nonce) ==
    Seal("v2", deriveEventKey(s.vault_key, s.key_epoch), nonce,
         MarshalPayload(op, entry))

\* The event PushEntry assembles from the state s it read, after its
\* IncrementLamport returned lamport; n is the draw of the random source.
BuildEvent(s, d, head, lamport, entry, op, n) ==
    LET eventID == NewUUID(d, n)
        nonce == <<"nonce", d, n>>
        ct == encryptEventPayload(s, op, entry, nonce)
        counter == head.counter + 1
        bytes == SignBytesEvent(eventID, s.vault_id, d, counter, lamport,
                                s.key_epoch, head.hash, nonce, ct)
    IN [event_id |-> eventID, vault_id |-> s.vault_id, device_id |-> d,
        counter |-> counter, lamport |-> lamport, key_epoch |-> s.key_epoch,
        prev_hash |-> head.hash, nonce |-> nonce, ciphertext |-> ct,
        signature |-> Sign(d, bytes)]

\* The part of PushEntry before the POST: the reads and IncrementLamport.
\* ok is FALSE where the method returns an error before it has an event.
PushPrepare(s, d, entry, op, n) ==
    IF op \notin Ops \/ ~s.has_keys \/ s.vault_id = NoVault
    THEN [ok |-> FALSE, s |-> s, ev |-> << >>]
    ELSE LET head == GetEventHead(s, d)
             s1 == IncrementLamport(s)
         IN IF s.vault_key = NoKey
            THEN [ok |-> FALSE, s |-> s1, ev |-> << >>]
            ELSE [ok |-> TRUE, s |-> s1,
                  ev |-> BuildEvent(s, d, head, s1.lamport, entry, op, n)]

\* The part of PushEntry after a POST the relay accepted.
PushCommit_StaleHead(s, d, ev, entry, op) ==
    IF op = "upsert" THEN SetEntryScheme(s, entry.id, "v2")
    ELSE RemoveEntryScheme(s, entry.id)
PushCommit(s, d, ev, entry, op) ==
    LET s1 == SetEventHead(s, d, [counter |-> ev.counter,
                                  hash |-> Sha256(EventSignBytes(ev))])
    IN IF op = "upsert" THEN SetEntryScheme(s1, entry.id, "v2")
       ELSE RemoveEntryScheme(s1, entry.id)

\* PushEntry as one call under the engine lock.  posted says whether the
\* relay accepted the POST; the result carries the state afterwards,
\* whether an error is returned, the events handed to the relay and the
\* draws taken from the random source.
PushEntry(s, d, entry, op, n, posted) ==
    LET p == PushPrepare(s, d, entry, op, n)
    IN IF ~p.ok THEN [s |-> p.s, err |-> TRUE, sent |-> << >>, n |-> n]
       ELSE IF ~posted
       THEN [s |-> p.s, err |-> TRUE, sent |-> << >>, n |-> n + 1]
       ELSE [s |-> PushCommit(p.s, d, p.ev, entry, op), err |-> FALSE,
             sent |-> <<p.ev>>, n |-> n + 1]

\* ------------------------------------------------- engine: pull, merge

\* decryptEventPayload: XChaCha20 first, the legacy secretbox second.
decryptEventPayload_V2Only(s, ct, nonce, keyEpoch) ==
    IF s.vault_key = NoKey THEN [ok |-> FALSE]
    ELSE LET x == decryptEventPayloadXChaCha(s.vault_key, keyEpoch, nonce, ct)
         IN IF x.ok
            THEN [ok |-> TRUE, op |-> UnmarshalPayload(x.pt).op,
                  entry |-> UnmarshalPayload(x.pt).entry, scheme |-> "v2"]
            ELSE [ok |-> FALSE]
decryptEventPayload(s, ct, nonce, keyEpoch) ==
    IF s.vault_key = NoKey THEN [ok |-> FALSE]
    ELSE LET x == decryptEventPayloadXChaCha(s.vault_key, keyEpoch, nonce, ct)
             l == decryptEventPayloadLegacy(s.vault_key, keyEpoch, nonce, ct)
         IN IF x.ok
            THEN [ok |-> TRUE, op |-> UnmarshalPayload(x.pt).op,
                  entry |-> UnmarshalPayload(x.pt).entry, scheme |-> "v2"]
            ELSE IF l.ok
            THEN [ok |-> TRUE, op |-> UnmarshalPayload(l.pt).op,
                  entry |-> UnmarshalPayload(l.pt).entry, scheme |-> "legacy"]
            ELSE [ok |-> FALSE]

\* The checks of one pulled event that end in `continue`: the sender is a
\* verified member, the signature verifies under the member's stored key,
\* the payload decrypts.
EventAccepted_AnySender(s, ev) ==
    /\ Verify(ev.device_id, EventSignBytes(ev), ev.signature)
    /\ decryptEventPayload(s, ev.ciphertext, ev.nonce, ev.key_epoch).ok
EventAccepted(s, ev) ==
    /\ Has(s.members, ev.device_id)
    /\ Verify(s.members[ev.device_id].pubkey_sign, EventSignBytes(ev),
              ev.signature)
    /\ decryptEventPayload(s, ev.ciphertext, ev.nonce, ev.key_epoch).ok

\* The win test of the merge loop against the tracked record of the id.
Wins(a, id, eventLamport, eventDeviceID) ==
    \/ ~Has(a.entryLamport, id)
    \/ eventLamport > a.entryLamport[id]
    \/ /\ eventLamport = a.entryLamport[id]
       /\ eventDeviceID > a.entryDeviceID[id]

\* The working state of SyncEntries before its loop.
MergeStart(s, localEntries) ==
    [entryMap |-> localEntries, entryLamport |-> EmptyMap,
     entryDeviceID |-> EmptyMap, deletedIDs |-> {}, scheme |-> s.scheme,
     maxSeq |-> s.sync_cursor, maxLamport |-> s.lamport]

\* The loop taking every op that is not "delete" for an upsert.
MergeStep_ElseUpsert(s, a, p) ==
    IF ~EventAccepted(s, p.ev) THEN a
    ELSE
      LET ev == p.ev
          dec == decryptEventPayload(s, ev.ciphertext, ev.nonce, ev.key_epoch)
          id == dec.entry.id
          won == Wins(a, id, ev.lamport, ev.device_id)
          a1 == IF dec.op = "delete" /\ won
                THEN [a EXCEPT !.deletedIDs = @ \cup {id},
                               !.entryMap = Del(@, id),
                               !.entryLamport = Put(@, id, ev.lamport),
                               !.entryDeviceID = Put(@, id, ev.device_id),
                               !.scheme = Del(@, id)]
                ELSE IF dec.op # "delete" /\ won /\ id \notin a.deletedIDs
                THEN [a EXCEPT !.entryMap = Put(@, id, dec.entry),
                               !.entryLamport = Put(@, id, ev.lamport),
                               !.entryDeviceID = Put(@, id, ev.device_id),
                               !.scheme = Put(@, id, dec.scheme)]
                ELSE a
      IN [a1 EXCEPT !.maxSeq = Max(@, p.seq),
                    !.maxLamport = Max(@, ev.lamport)]
\* One iteration of the loop over the pulled events; p is [seq, ev].
MergeStep(s, a, p) ==
    IF ~EventAccepted(s, p.ev) THEN a
    ELSE
      LET ev == p.ev
          dec == decryptEventPayload(s, ev.ciphertext, ev.nonce, ev.key_epoch)
          id == dec.entry.id
          won == Wins(a, id, ev.lamport, ev.device_id)
          a1 == IF dec.op = "delete" /\ won
                THEN [a EXCEPT !.deletedIDs = @ \cup {id},
                               !.entryMap = Del(@, id),
                               !.entryLamport = Put(@, id, ev.lamport),
                               !.entryDeviceID = Put(@, id, ev.device_id),
                               !.scheme = Del(@, id)]
                ELSE IF dec.op = "upsert" /\ won /\ id \notin a.deletedIDs
                THEN [a EXCEPT !.entryMap = Put(@, id, dec.entry),
                               !.entryLamport = Put(@, id, ev.lamport),
                               !.entryDeviceID = Put(@, id, ev.device_id),
                               !.scheme = Put(@, id, dec.scheme)]
                ELSE a
      IN [a1 EXCEPT !.maxSeq = Max(@, p.seq),
                    !.maxLamport = Max(@, ev.lamport)]

RECURSIVE MergeLoop(_, _, _, _)
MergeLoop(s, a, batch, i) ==
    IF i > Len(batch) THEN a
    ELSE MergeLoop(s, MergeStep(s, a, batch[i]), batch, i + 1)

\* SyncEntries storing the greatest seq it accepted in this batch, without
\* regard to the cursor it read.
SyncEntries_ResetCursor(s, localEntries, batch, pulled) ==
    IF s.vault_id = NoVault \/ ~pulled
    THEN [s |-> s, err |-> TRUE, result |-> localEntries]
    ELSE
      LET a == MergeLoop(s, [MergeStart(s, localEntries) EXCEPT !.maxSeq = 0],
                         batch, 1)
          s1 == [s EXCEPT !.scheme = a.scheme]
          s2 == SetSyncCursor(s1, a.maxSeq)
          s3 == IF a.maxLamport > s.lamport
                THEN UpdateLamport(s2, a.maxLamport) ELSE s2
      IN [s |-> s3, err |-> FALSE, result |-> a.entryMap]
SyncEntries_KeepLocal(s, localEntries, batch, pulled) ==
    IF s.vault_id = NoVault \/ ~pulled
    THEN [s |-> s, err |-> TRUE, result |-> localEntries]
    ELSE
      LET a == MergeLoop(s, MergeStart(s, localEntries), batch, 1)
          s1 == [s EXCEPT !.scheme = a.scheme]
          s2 == IF a.maxSeq > s.sync_cursor
                THEN SetSyncCursor(s1, a.maxSeq) ELSE s1
          s3 == IF a.maxLamport > s.lamport
                THEN UpdateLamport(s2, a.maxLamport) ELSE s2
      IN [s |-> s3, err |-> FALSE,
          result |-> [id \in DOMAIN a.entryMap \cup DOMAIN localEntries |->
                        IF Has(a.entryMap, id) THEN a.entryMap[id]
                        ELSE localEntries[id]]]
\* SyncEntries from the pull on: what it stores and what it returns.
\* pulled is FALSE when the GET failed; the call then returns localEntries
\* with an error.
SyncEntries(s, localEntries, batch, pulled) ==
    IF s.vault_id = NoVault \/ ~pulled
    THEN [s |-> s, err |-> TRUE, result |-> localEntries]
    ELSE
      LET a == MergeLoop(s, MergeStart(s, localEntries), batch, 1)
          s1 == [s EXCEPT !.scheme = a.scheme]
          s2 == IF a.maxSeq > s.sync_cursor
                THEN SetSyncCursor(s1, a.maxSeq) ELSE s1
          s3 == IF a.maxLamport > s.lamport
                THEN UpdateLamport(s2, a.maxLamport) ELSE s2
      IN [s |-> s3, err |-> FALSE, result |-> a.entryMap]

\* -------------------------------------------------- engine: membership

DeviceBundle(d) ==
    [device_id |-> d, pubkey_sign |-> d, pubkey_box |-> d,
     bundle_sig |-> Sign(d, SignBytesDeviceBundle(d, d, d))]

MemberAddSignBytes(me) ==
    SignBytesMemberAdd(me.member_event_id, me.vault_id, me.member_seq,
                       me.prev_hash, me.actor, me.subject, me.invite_id,
                       me.claim_sig, me.subject_bundle_sig,
                       me.subject_pubkey_sign, me.subject_pubkey_box)

\* A member_add event as CreateVault and AcceptInviteClaim assemble it.
MemberAdd(eventID, vaultID, seq, prevHash, actor, bundle, inviteID, claimSig) ==
    LET me == [msg_type |-> "member_add", member_event_id |-> eventID,
               vault_id |-> vaultID, member_seq |-> seq,
               prev_hash |-> prevHash, actor |-> actor,
               subject |-> bundle.device_id,
               subject_pubkey_sign |-> bundle.pubkey_sign,
               subject_pubkey_box |-> bundle.pubkey_box,
               subject_bundle_sig |-> bundle.bundle_sig,
               invite_id |-> inviteID, claim_sig |-> claimSig]
    IN [f \in (DOMAIN me) \cup {"signature"} |->
          IF f = "signature" THEN Sign(actor, MemberAddSignBytes(me))
          ELSE me[f]]

\* What a relay call can come back with.  A transport failure is an error
\* that is no APIError; a rejection is an APIError with the HTTP status,
\* the code and the message of the response body.
NoError == [kind |-> "none"]
TransportError == [kind |-> "transport"]
APIError(status, code, message) ==
    [kind |-> "api", status |-> status, code |-> code, message |-> message]
OtherError == [kind |-> "other"]

StatusConflict == 409

\* strings.ToLower over the messages a relay sends.
ToLower(message) ==
    CASE message = "Invite has already been used" ->
             "invite has already been used"
      [] message = "error: INVITE HAS ALREADY BEEN USED" ->
             "error: invite has already been used"
      [] OTHER -> message

\* strings.Contains(m, "invite has already been used")
ContainsAlreadyUsed(m) ==
    m \in {"invite has already been used",
           "error: invite has already been used"}

isInviteAlreadyUsed_CodeOnly(err) ==
    err.kind = "api" /\ err.code = "invite_already_used"
isInviteAlreadyUsed(err) ==
    /\ err.kind = "api"
    /\ \/ err.code = "invite_already_used"
       \/ /\ err.status = StatusConflict
          /\ ContainsAlreadyUsed(ToLower(err.message))

\* CreateVault: post the bootstrap member_add, then store the vault.
\* answer is what CreateMemberEvent came back with.
CreateVault_WriteFirst(s, d, n, answer) ==
    IF ~s.has_keys THEN [s |-> s, err |-> OtherError, sent |-> << >>]
    ELSE
      LET vaultID == NewUUID(d, n)
          me == MemberAdd(NewUUID(d, n + 1), vaultID, 1, ZeroHash, d,
                          DeviceBundle(d), ZeroUUID, Zero64)
          s1 == [s EXCEPT !.vault_id = vaultID,
                          !.vault_key = NewVaultKey(d, n),
                          !.key_epoch = 1, !.owner = d]
          s2 == SetMembershipHead(s1, 1, Sha256(MemberAddSignBytes(me)))
          s3 == SetVerifiedMember(s2, d, d, d, 1)
      IN IF answer.kind # "none"
         THEN [s |-> s1, err |-> answer, sent |-> << >>]
         ELSE [s |-> s3, err |-> NoError, sent |-> <<me>>]
CreateVault(s, d, n, answer) ==
    IF ~s.has_keys THEN [s |-> s, err |-> OtherError, sent |-> << >>]
    ELSE
      LET vaultID == NewUUID(d, n)
          me == MemberAdd(NewUUID(d, n + 1), vaultID, 1, ZeroHash, d,
                          DeviceBundle(d), ZeroUUID, Zero64)
          s1 == [s EXCEPT !.vault_id = vaultID,
                          !.vault_key = NewVaultKey(d, n),
                          !.key_epoch = 1, !.owner = d]
          s2 == SetMembershipHead(s1, 1, Sha256(MemberAddSignBytes(me)))
          s3 == SetVerifiedMember(s2, d, d, d, 1)
      IN IF answer.kind # "none"
         THEN [s |-> s, err |-> answer, sent |-> << >>]
         ELSE [s |-> s3, err |-> NoError, sent |-> <<me>>]

\* The member_add AcceptInviteClaim builds on the membership head it read.
AdmissionEvent_SameSeq(s, d, claim, bundle, n) ==
    MemberAdd(NewUUID(d, n), s.vault_id, s.member_seq, s.member_head_hash,
              d, bundle, claim.invite_id, claim.signature)
AdmissionEvent(s, d, claim, bundle, n) ==
    MemberAdd(NewUUID(d, n), s.vault_id, s.member_seq + 1,
              s.member_head_hash, d, bundle, claim.invite_id,
              claim.signature)

\* AcceptInviteClaim.  got is FALSE when GET /v1/devices/{id} failed;
\* answer is what CreateMemberEvent came back with.
AcceptInviteClaim_HeadFirst(s, d, claim, n, got, answer) ==
    IF ~s.has_keys \/ s.vault_id = NoVault \/ claim.vault_id # s.vault_id
    THEN [s |-> s, err |-> OtherError, sent |-> << >>]
    ELSE IF ~got THEN [s |-> s, err |-> TransportError, sent |-> << >>]
    ELSE
      LET bundle == DeviceBundle(claim.device_id)
          me == AdmissionEvent(s, d, claim, bundle, n)
          s1 == SetMembershipHead(s, me.member_seq,
                                  Sha256(MemberAddSignBytes(me)))
          s2 == SetVerifiedMember(s1, bundle.device_id, bundle.pubkey_sign,
                                  bundle.pubkey_box, 1)
      IN IF answer.kind # "none"
         THEN [s |-> s1, err |-> answer, sent |-> << >>]
         ELSE [s |-> s2, err |-> NoError, sent |-> <<me>>]
AcceptInviteClaim(s, d, claim, n, got, answer) ==
    IF ~s.has_keys \/ s.vault_id = NoVault \/ claim.vault_id # s.vault_id
    THEN [s |-> s, err |-> OtherError, sent |-> << >>]
    ELSE IF ~got THEN [s |-> s, err |-> TransportError, sent |-> << >>]
    ELSE
      LET bundle == DeviceBundle(claim.device_id)
          me == AdmissionEvent(s, d, claim, bundle, n)
          s1 == SetMembershipHead(s, me.member_seq,
                                  Sha256(MemberAddSignBytes(me)))
          s2 == SetVerifiedMember(s1, bundle.device_id, bundle.pubkey_sign,
                                  bundle.pubkey_box, 1)
      IN IF answer.kind # "none"
         THEN [s |-> s, err |-> answer, sent |-> << >>]
         ELSE [s |-> s2, err |-> NoError, sent |-> <<me>>]

\* crypto.BoxSeal / crypto.BoxOpen between two box keypairs.
BoxSeal(pt, toPubBox, fromDevice) ==
    [to |-> toPubBox, from |-> fromDevice, pt |-> pt]
BoxOpen(sealed, fromPubBox, d) ==
    IF sealed.to = d /\ sealed.from = fromPubBox
    THEN [ok |-> TRUE, pt |-> sealed.pt] ELSE [ok |-> FALSE, pt |-> NoKey]

\* InviteDevice: seal the vault key to the target and post the invite.
InviteDevice(s, d, targetBundle, n, posted) ==
    IF ~s.has_keys \/ s.vault_id = NoVault \/ s.vault_key = NoKey \/ ~posted
    THEN [err |-> TRUE, sent |-> << >>]
    ELSE
      LET inv == [msg_type |-> "invite", invite_id |-> NewUUID(d, n),
                  vault_id |-> s.vault_id,
                  target_device_id |-> targetBundle.device_id,
                  sealed |-> BoxSeal(s.vault_key, targetBundle.pubkey_box, d),
                  created_by_device_id |-> d, single_use |-> TRUE]
      IN [err |-> FALSE, sent |-> <<inv>>]

\* The claim JoinVault signs for an invite.
ClaimOf(d, invite) ==
    [msg_type |-> "invite_claim", invite_id |-> invite.invite_id,
     vault_id |-> invite.vault_id, device_id |-> d,
     signature |-> Sign(d, SignBytesInviteClaim(invite.invite_id,
                                                invite.vault_id, d))]

\* The tail RefreshMembership and JoinVault share: replace the membership
\* head and the verified members by what GET /members returned.
StoreMembers(s, resp) ==
    LET s1 == SetMembershipHead(s, resp.member_seq, resp.head_hash)
        s2 == ClearVerifiedMembers(s1)
    IN [s2 EXCEPT !.members =
          [m \in {x.device_id : x \in resp.members} |->
             LET x == CHOOSE y \in resp.members : y.device_id = m
             IN [pubkey_sign |-> x.pubkey_sign, pubkey_box |-> x.pubkey_box,
                 key_epoch |-> x.key_epoch]]]

\* RefreshMembership.  got is FALSE when GET /members failed.
RefreshMembership(s, resp, got) ==
    IF s.vault_id = NoVault \/ ~got THEN [s |-> s, err |-> TRUE]
    ELSE [s |-> StoreMembers(s, resp), err |-> FALSE]

\* JoinVault.  claimed is FALSE when the claim POST failed; got is FALSE
\* when the GET /members after it failed.
JoinVault_FreshClock(s, d, invite, claimed, resp, got) ==
    LET opened == BoxOpen(invite.sealed, invite.created_by_device_id, d)
        s1 == [s EXCEPT !.vault_id = invite.vault_id,
                        !.vault_key = opened.pt, !.key_epoch = 1,
                        !.lamport = 0, !.pending = EmptyMap]
    IN IF ~s.has_keys \/ ~opened.ok \/ ~claimed
       THEN [s |-> s, err |-> TRUE, sent |-> << >>]
       ELSE IF ~got
       THEN [s |-> s1, err |-> TRUE, sent |-> <<ClaimOf(d, invite)>>]
       ELSE [s |-> StoreMembers(s1, resp), err |-> FALSE,
             sent |-> <<ClaimOf(d, invite)>>]
JoinVault(s, d, invite, claimed, resp, got) ==
    LET opened == BoxOpen(invite.sealed, invite.created_by_device_id, d)
        s1 == [s EXCEPT !.vault_id = invite.vault_id,
                        !.vault_key = opened.pt, !.key_epoch = 1]
    IN IF ~s.has_keys \/ ~opened.ok \/ ~claimed
       THEN [s |-> s, err |-> TRUE, sent |-> << >>]
       ELSE IF ~got
       THEN [s |-> s1, err |-> TRUE, sent |-> <<ClaimOf(d, invite)>>]
       ELSE [s |-> StoreMembers(s1, resp), err |-> FALSE,
             sent |-> <<ClaimOf(d, invite)>>]

\* ---------------------------------------------------------------- state

VARIABLES
    db,           \* db[d]: the sync buckets of device d's database file
    local,        \* local[d]: the entry list of d's vault screen, by id
    app,          \* app[d]: d's App: isLocked, and whether it has an engine
    relayEvents,  \* relayEvents[v]: the relay's event log of vault v
    relayLedger,  \* relayLedger[v]: the relay's membership ledger of vault v
    relayInvites, \* the invites the relay stores
    relayClaims,  \* the invite claims the relay stores, in arrival order
    rng,          \* rng[d]: draws d has taken from its random source
    job,          \* job[d]: the loop d's command is in: flush, seed, claims
    push,         \* push[t]: the PushEntry call of goroutine t in progress
    mu            \* mu[e]: the goroutine holding the mutex of engine e

vars == <<db, local, app, relayEvents, relayLedger, relayInvites, relayClaims,
          rng, job, push, mu>>

relayMembership == <<relayLedger, relayInvites, relayClaims>>
goroutines == <<push, mu>>

\* ---------------------------------------------------------------- relay

\* GET /v1/vaults/{v}/events?since_seq=N: the events after N, each with the
\* seq the relay assigned, which is its position in the vault's log.
RelayLog(v) == IF Has(relayEvents, v) THEN relayEvents[v] ELSE << >>

RelayPull(v, since) ==
    LET log == RelayLog(v)
        first == since + 1
    IN [i \in 1..Max(0, Len(log) - since) |->
           [seq |-> first + i - 1, ev |-> log[first + i - 1]]]

\* POST /v1/vaults/{v}/events: the log with the accepted events appended.
RelayAppend(evs) ==
    IF evs = << >> THEN relayEvents
    ELSE Put(relayEvents, evs[1].vault_id,
             RelayLog(evs[1].vault_id) \o evs)

RelayHasRoom(v) == Len(RelayLog(v)) < MaxEvents

\* The draws a device has behind it when the vault is set up: the founder
\* drew a vault id, a member event id, an invite id and a second member
\* event id.
InitialDraws(d) == IF d = 1 THEN 4 ELSE 0

\* The event POSTs of device d that the relay did not store: every
\* PushEntry that got as far as the POST took one draw for its event id.
EventsBy(d) ==
    LET log == RelayLog(db[d].vault_id)
    IN Cardinality({i \in 1..Len(log) : log[i].device_id = d})
FailedPosts(d) == rng[d] - InitialDraws(d) - EventsBy(d)
\* The answers to device d's next event POST: stored while the log has
\* room, not stored while fewer than budget POSTs have failed.
PostAnswers(d, budget) ==
    {x \in {TRUE} : RelayHasRoom(db[d].vault_id)}
    \cup {x \in {FALSE} :
             FailedPosts(1) + FailedPosts(2) + FailedPosts(3) < budget}

\* GET /v1/vaults/{v}/members: the ledger's length, the digest of its last
\* event and the devices it admitted.
RelayLedgerOf(v) == IF Has(relayLedger, v) THEN relayLedger[v] ELSE << >>

MembersResponse(ledger) ==
       [member_seq |-> Len(ledger),
        head_hash |-> IF ledger = << >> THEN ZeroHash
                      ELSE Sha256(MemberAddSignBytes(ledger[Len(ledger)])),
        members |-> {[device_id |-> ledger[i].subject,
                      pubkey_sign |-> ledger[i].subject_pubkey_sign,
                      pubkey_box |-> ledger[i].subject_pubkey_box,
                      key_epoch |-> 1] : i \in 1..Len(ledger)}]

RelayMembers(v) == MembersResponse(RelayLedgerOf(v))

\* An invite is used once the ledger holds a member_add that names it.
RelayInviteUsed(v, inviteID) ==
    \E i \in 1..Len(RelayLedgerOf(v)) :
        RelayLedgerOf(v)[i].invite_id = inviteID

\* The responses the relay gives a member_add that names a used invite.
AlreadyUsedAnswers ==
    {APIError(StatusConflict, "invite_already_used", "invite already used"),
     APIError(StatusConflict, "conflict", "Invite has already been used"),
     APIError(StatusConflict, "", "error: INVITE HAS ALREADY BEEN USED")}

\* The responses to a member_add the relay does not store for other reasons.
RejectAnswers ==
    {TransportError, APIError(500, "internal", "internal error"),
     APIError(StatusConflict, "conflict", "member_seq conflict")}

\* POST /v1/vaults/{v}/member_events: what the relay can answer to me.
MemberEventAnswers(me) ==
    IF me.invite_id # ZeroUUID /\ RelayInviteUsed(me.vault_id, me.invite_id)
    THEN AlreadyUsedAnswers \cup {TransportError}
    ELSE RejectAnswers \cup {NoError}

RelayLedgerAppend(mes) ==
    IF mes = << >> THEN relayLedger
    ELSE Put(relayLedger, mes[1].vault_id,
             RelayLedgerOf(mes[1].vault_id) \o mes)

\* GET /v1/invite_claims?created_by_device_id=d
RelayClaimsFor(d) ==
    SelectSeq(relayClaims,
              LAMBDA c : \E inv \in relayInvites :
                            /\ inv.invite_id = c.invite_id
                            /\ inv.created_by_device_id = d)

\* ------------------------------------------------------- app: commands

\* App.handleSyncPushEntry: push, and queue the mutation if the push failed.
HandleSyncPushEntry(d, entry, op, posted) ==
    LET r == PushEntry(db[d], d, entry, op, rng[d], posted)
    IN /\ app[d].engine
       /\ db' = [db EXCEPT ![d] =
                   IF r.err THEN AddPendingEntry(r.s, op, entry)
                   ELSE RemovePendingEntry(r.s, entry.id)]
       /\ relayEvents' = RelayAppend(r.sent)
       /\ rng' = [rng EXCEPT ![d] = r.n]
       /\ UNCHANGED <<local, app, relayMembership, job, goroutines>>

\* One iteration of FlushPendingEntries' loop over the queue it read:
\* f is [s, n, sent, err, firstErr], firstErr naming the item whose error
\* the call will return; item is one queued record, posted the relay's
\* answer to this item's POST.
FlushItem_KeepQueued(f, d, item, posted) ==
    LET r == PushEntry(f.s, d, item.entry, item.op, f.n, posted)
    IN [s |-> r.s, n |-> r.n, sent |-> f.sent \o r.sent,
        err |-> f.err \/ r.err,
        firstErr |-> IF f.firstErr = << >> /\ r.err THEN <<item.entry.id>>
                     ELSE f.firstErr]
FlushItem_DropFailed(f, d, item, posted) ==
    IF item.op \notin Ops
    THEN [f EXCEPT !.err = TRUE,
                   !.firstErr = IF @ = << >> THEN <<item.entry.id>> ELSE @]
    ELSE LET r == PushEntry(f.s, d, item.entry, item.op, f.n, posted)
         IN [s |-> RemovePendingEntry(r.s, item.entry.id),
             n |-> r.n, sent |-> f.sent \o r.sent,
             err |-> f.err \/ r.err,
             firstErr |-> IF f.firstErr = << >> /\ r.err
                          THEN <<item.entry.id>> ELSE f.firstErr]
FlushItem(f, d, item, posted) ==
    IF item.op \notin Ops
    THEN [f EXCEPT !.err = TRUE,
                   !.firstErr = IF @ = << >> THEN <<item.entry.id>> ELSE @]
    ELSE LET r == PushEntry(f.s, d, item.entry, item.op, f.n, posted)
         IN [s |-> IF r.err THEN r.s
                   ELSE RemovePendingEntry(r.s, item.entry.id),
             n |-> r.n, sent |-> f.sent \o r.sent,
             err |-> f.err \/ r.err,
             firstErr |-> IF f.firstErr = << >> /\ r.err
                          THEN <<item.entry.id>> ELSE f.firstErr]

Idle == [phase |-> "idle"]

\* Engine.FlushPendingEntries reads the queue once ...
FlushBegin(d) ==
    LET items == GetPendingEntries(db[d])
    IN /\ app[d].engine
       /\ job[d].phase = "idle"
       /\ Len(items) > 0
       /\ job' = [job EXCEPT ![d] =
             [phase |-> "loop", items |-> items, i |-> 1, err |-> FALSE,
              firstErr |-> << >>,
              start |-> Len(RelayLog(db[d].vault_id)), healthy |-> TRUE]]
       /\ UNCHANGED <<db, local, app, relayEvents, relayMembership, rng,
                    goroutines>>

\* ... then pushes the items one by one, each under the engine lock ...
FlushNext(d, posted) ==
    LET fl == job[d]
        f == FlushItem([s |-> db[d], n |-> rng[d], sent |-> << >>,
                        err |-> fl.err, firstErr |-> fl.firstErr], d,
                       fl.items[fl.i], posted)
    IN /\ fl.phase = "loop"
       /\ fl.i <= Len(fl.items)
       /\ db' = [db EXCEPT ![d] = f.s]
       /\ relayEvents' = RelayAppend(f.sent)
       /\ rng' = [rng EXCEPT ![d] = f.n]
       /\ job' = [job EXCEPT ![d].i = @ + 1, ![d].err = f.err,
                                 ![d].firstErr = f.firstErr,
                                 ![d].healthy = @ /\ posted]
       /\ UNCHANGED <<local, app, relayMembership, goroutines>>

\* ... and returns the first error it met.
FlushEnd(d) ==
    /\ job[d].phase = "loop"
    /\ job[d].i > Len(job[d].items)
    /\ job' = [job EXCEPT ![d] = Idle]
    /\ UNCHANGED <<db, local, app, relayEvents, relayMembership, rng,
                    goroutines>>

\* One iteration of the loop of App.seedLocalEntriesIfNeeded: push an
\* upsert of the entry, queue it if the push failed.
SeedItem(f, d, entry, posted) ==
    LET r == PushEntry(f.s, d, entry, "upsert", f.n, posted)
    IN [s |-> IF r.err THEN AddPendingEntry(r.s, "upsert", entry)
              ELSE RemovePendingEntry(r.s, entry.id),
        n |-> r.n, sent |-> f.sent \o r.sent, err |-> f.err \/ r.err]

\* The entry list of the vault screen as a slice.
EntryList(entries) ==
    LET keys == SortedKeys(DOMAIN entries)
    IN [i \in 1..Len(keys) |-> entries[keys[i]]]

\* App.seedLocalEntriesIfNeeded pushes every local entry when the device
\* has no event of its own yet ...
SeedBegin(d) ==
    /\ app[d].engine
    /\ job[d].phase = "idle"
    /\ local[d] # EmptyMap
    /\ db[d].has_keys
    /\ GetEventHead(db[d], d).counter = 0
    /\ job' = [job EXCEPT ![d] =
          [phase |-> "seed", items |-> EntryList(local[d]), i |-> 1,
           err |-> FALSE, start |-> Len(RelayLog(db[d].vault_id)),
           healthy |-> TRUE]]
    /\ UNCHANGED <<db, local, app, relayEvents, relayMembership, rng,
                    goroutines>>

\* ... one entry after the other ...
SeedNext(d, posted) ==
    LET fl == job[d]
        f == SeedItem([s |-> db[d], n |-> rng[d], sent |-> << >>,
                       err |-> fl.err], d, fl.items[fl.i], posted)
    IN /\ fl.phase = "seed"
       /\ fl.i <= Len(fl.items)
       /\ db' = [db EXCEPT ![d] = f.s]
       /\ relayEvents' = RelayAppend(f.sent)
       /\ rng' = [rng EXCEPT ![d] = f.n]
       /\ job' = [job EXCEPT ![d].i = @ + 1, ![d].err = f.err,
                                 ![d].healthy = @ /\ posted]
       /\ UNCHANGED <<local, app, relayMembership, goroutines>>

\* ... and returns the first error it met.
SeedEnd(d) ==
    /\ job[d].phase = "seed"
    /\ job[d].i > Len(job[d].items)
    /\ job' = [job EXCEPT ![d] = Idle]
    /\ UNCHANGED <<db, local, app, relayEvents, relayMembership, rng,
                    goroutines>>

\* Store.SaveEntries: the vault blob after the call.  A locked store
\* returns "vault is locked" and keeps the blob it has.
SaveEntries(isLocked, stored, entries) ==
    IF isLocked THEN stored ELSE entries

\* The pull-and-merge step of Sync Now, and the SyncNowCompleteMsg handler
\* that saves the merged list and shows it if the save succeeded.
SyncEntriesCall(d, pulled) ==
    LET batch == RelayPull(db[d].vault_id, db[d].sync_cursor)
        r == SyncEntries(db[d], local[d], batch, pulled)
    IN /\ app[d].engine
       /\ db' = [db EXCEPT ![d] = r.s]
       /\ local' = [local EXCEPT ![d] =
                      IF r.err THEN @
                      ELSE SaveEntries(app[d].locked, @, r.result)]
       /\ UNCHANGED <<app, relayEvents, relayMembership, rng, job,
                    goroutines>>

\* ------------------------------------------------ replication of entries

Goroutines == {"ui", "sync", "setup"}
Engines == {"app", "setup"}
Free == "free"

\* A device after Register Device: keypairs stored, relay URL configured.
KeyedState == initDeviceKeysIfNeeded(SetServerURL(FreshState), 0)

Unlocked == [locked |-> FALSE, engine |-> TRUE]

\* Device 1 set up a vault and invited device 2, device 2 joined, device 1
\* admitted it, device 2 refreshed its membership.
Founder == 1
Joiner == 2
Members == {Founder, Joiner}

Founding ==
    LET c == CreateVault(KeyedState, Founder, 0, NoError)
        inv == InviteDevice(c.s, Founder, DeviceBundle(Joiner), 2, TRUE).sent[1]
        j == JoinVault(KeyedState, Joiner, inv, TRUE,
                       MembersResponse(c.sent), TRUE)
        acc == AcceptInviteClaim(c.s, Founder, ClaimOf(Joiner, inv), 3, TRUE,
                                 NoError)
        ledger == c.sent \o acc.sent
    IN [vault |-> c.s.vault_id, ledger |-> ledger, invite |-> inv,
        claim |-> ClaimOf(Joiner, inv), founder |-> acc.s,
        joiner |-> RefreshMembership(j.s, MembersResponse(ledger), TRUE).s]

Init ==
    /\ db = [d \in Devices |->
               IF d = Founder THEN Founding.founder
               ELSE IF d = Joiner THEN Founding.joiner ELSE KeyedState]
    /\ local = [d \in Devices |-> EmptyMap]
    /\ app = [d \in Devices |-> Unlocked]
    /\ relayEvents = EmptyMap
    /\ relayLedger = Put(EmptyMap, Founding.vault, Founding.ledger)
    /\ relayInvites = {Founding.invite}
    /\ relayClaims = <<Founding.claim>>
    /\ rng = [d \in Devices |-> InitialDraws(d)]
    /\ job = [d \in Devices |-> Idle]
    /\ push = [t \in Goroutines |-> Idle]
    /\ mu = [e \in Engines |-> Free]

Next ==
    \E d \in Members :
        \/ \E entry \in Entries, op \in Ops :
              \E posted \in PostAnswers(d, MaxFailures) :
                 HandleSyncPushEntry(d, entry, op, posted)
        \/ FlushBegin(d)
        \/ \E posted \in PostAnswers(d, MaxFailures) : FlushNext(d, posted)
        \/ FlushEnd(d)
        \/ \E pulled \in BOOLEAN : SyncEntriesCall(d, pulled)

Spec == Init /\ [][Next]_vars

\* --------------------------------------------------- the pending queue

\* One device used sequentially: pushes that may fail and are queued, and
\* flushes of the queue, none of them overlapping another.
NextFlush ==
    \/ /\ job[Founder].phase = "idle"
       /\ \E entry \in Entries, op \in Ops :
             \E posted \in PostAnswers(Founder, MaxFlushFailures) :
                HandleSyncPushEntry(Founder, entry, op, posted)
    \/ FlushBegin(Founder)
    \/ \E posted \in PostAnswers(Founder, MaxFlushFailures) :
          FlushNext(Founder, posted)
    \/ FlushEnd(Founder)

SpecFlush == Init /\ [][NextFlush]_vars

\* One device whose UI pushes run in their own goroutines next to a flush:
\* a push may come between the flush's read of the queue and any of its
\* items.
NextRace ==
    \/ \E entry \in Entries, op \in Ops :
          \E posted \in PostAnswers(Founder, MaxFlushFailures) :
             HandleSyncPushEntry(Founder, entry, op, posted)
    \/ FlushBegin(Founder)
    \/ \E posted \in PostAnswers(Founder, MaxFlushFailures) :
          FlushNext(Founder, posted)
    \/ FlushEnd(Founder)

SpecRace == Init /\ [][NextRace]_vars

\* ------------------------------------------------------- the round trip

\* The entry lists with distinct ids.
EntryLists ==
    UNION {[ids -> 1..MaxVer] : ids \in SUBSET EntryIDs}

InitRoundTrip ==
    /\ db = [d \in Devices |->
               IF d = Founder THEN Founding.founder
               ELSE IF d = Joiner THEN Founding.joiner ELSE KeyedState]
    /\ \E versions \in EntryLists :
          local = [d \in Devices |->
                     IF d = Founder
                     THEN [id \in DOMAIN versions |->
                             [id |-> id, ver |-> versions[id]]]
                     ELSE EmptyMap]
    /\ app = [d \in Devices |-> Unlocked]
    /\ relayEvents = EmptyMap
    /\ relayLedger = Put(EmptyMap, Founding.vault, Founding.ledger)
    /\ relayInvites = {Founding.invite}
    /\ relayClaims = <<Founding.claim>>
    /\ rng = [d \in Devices |-> InitialDraws(d)]
    /\ job = [d \in Devices |-> Idle]
    /\ push = [t \in Goroutines |-> Idle]
    /\ mu = [e \in Engines |-> Free]

\* The founder seeds the vault with its entries and retries what failed;
\* the joiner pulls.
NextRoundTrip ==
    \/ SeedBegin(Founder)
    \/ \E posted \in PostAnswers(Founder, MaxFlushFailures) :
          SeedNext(Founder, posted)
    \/ SeedEnd(Founder)
    \/ FlushBegin(Founder)
    \/ \E posted \in PostAnswers(Founder, MaxFlushFailures) :
          FlushNext(Founder, posted)
    \/ FlushEnd(Founder)
    \/ \E pulled \in BOOLEAN : SyncEntriesCall(Joiner, pulled)

SpecRoundTrip == InitRoundTrip /\ [][NextRoundTrip]_vars

\* ------------------------------------------------------------ membership

\* App.handleSetupSync, action "create", on a device with no entries.
HandleSetupSyncCreate(d, answer) ==
    LET s == initDeviceKeysIfNeeded(SetServerURL(db[d]), rng[d])
        r == CreateVault(s, d, rng[d], answer)
    IN /\ ~app[d].locked
       /\ job[d].phase = "idle"
       /\ db' = [db EXCEPT ![d] = r.s]
       /\ relayLedger' = RelayLedgerAppend(r.sent)
       /\ rng' = [rng EXCEPT ![d] = @ + 2]
       /\ UNCHANGED <<local, app, relayEvents, relayInvites, relayClaims,
                       job, goroutines>>

\* App.handleInviteDevice on a device with no entries.
HandleInviteDevice(d, target, posted) ==
    LET r == InviteDevice(db[d], d, DeviceBundle(target), rng[d], posted)
    IN /\ app[d].engine
       /\ job[d].phase = "idle"
       /\ relayInvites' = relayInvites \cup Range(r.sent)
       /\ rng' = [rng EXCEPT ![d] = @ + 1]
       /\ UNCHANGED <<db, local, app, relayEvents, relayLedger, relayClaims,
                       job, goroutines>>

\* App.handleAcceptInvite: JoinVault with an invite the relay lists for d.
\* The relay takes one claim per invite.
HandleAcceptInvite(d, invite, claimed, got) ==
    LET s == initDeviceKeysIfNeeded(SetServerURL(db[d]), rng[d])
        r == JoinVault(s, d, invite, claimed, RelayMembers(invite.vault_id),
                       got)
    IN /\ ~app[d].locked
       /\ job[d].phase = "idle"
       /\ invite \in relayInvites
       /\ invite.target_device_id = d
       /\ claimed => \A i \in 1..Len(relayClaims) :
                        relayClaims[i].invite_id # invite.invite_id
       /\ db' = [db EXCEPT ![d] = r.s]
       /\ relayClaims' = relayClaims \o r.sent
       /\ UNCHANGED <<local, app, relayEvents, relayLedger, relayInvites,
                       rng, job, goroutines>>

\* Engine.AcceptPendingInviteClaims fetches the claims on d's invites ...
AcceptBegin(d, got) ==
    /\ app[d].engine
    /\ job[d].phase = "idle"
    /\ db[d].has_keys
    /\ got
    /\ RelayClaimsFor(d) # << >>
    /\ db[d].vault_id # NoVault
    /\ job' = [job EXCEPT ![d] =
          [phase |-> "claims", items |-> RelayClaimsFor(d), i |-> 1,
           err |-> FALSE, vault |-> db[d].vault_id,
           head |-> GetMembershipHead(db[d]),
           ledger |-> RelayLedgerOf(db[d].vault_id),
           replay |-> \A k \in 1..Len(RelayClaimsFor(d)) :
                         RelayInviteUsed(db[d].vault_id,
                                         RelayClaimsFor(d)[k].invite_id),
           answers |-> {}]]
    /\ UNCHANGED <<db, local, app, relayEvents, relayMembership, rng,
                    goroutines>>

\* ... accepts those of its vault one by one, passing over a claim the
\* relay reports as already used and stopping at any other error ...
AcceptNext_NoFilter(d, got, answer) ==
    LET jb == job[d]
        claim == jb.items[jb.i]
        r == AcceptInviteClaim(db[d], d, claim, rng[d], got, answer)
        stop == r.err.kind # "none" /\ ~isInviteAlreadyUsed(r.err)
    IN /\ jb.phase = "claims"
       /\ jb.i <= Len(jb.items)
       /\ IF FALSE
          THEN /\ job' = [job EXCEPT ![d].i = @ + 1]
               /\ UNCHANGED <<db, relayLedger, rng>>
          ELSE /\ db' = [db EXCEPT ![d] = r.s]
               /\ relayLedger' = RelayLedgerAppend(r.sent)
               /\ rng' = [rng EXCEPT ![d] = @ + 1]
               /\ job' = [job EXCEPT
                     ![d].i = IF stop THEN Len(jb.items) + 1 ELSE @ + 1,
                     ![d].err = stop,
                     ![d].answers = @ \cup {r.err}]
       /\ UNCHANGED <<local, app, relayEvents, relayInvites, relayClaims,
                       goroutines>>
AcceptNext(d, got, answer) ==
    LET jb == job[d]
        claim == jb.items[jb.i]
        r == AcceptInviteClaim(db[d], d, claim, rng[d], got, answer)
        stop == r.err.kind # "none" /\ ~isInviteAlreadyUsed(r.err)
    IN /\ jb.phase = "claims"
       /\ jb.i <= Len(jb.items)
       /\ IF claim.vault_id # jb.vault
          THEN /\ job' = [job EXCEPT ![d].i = @ + 1]
               /\ UNCHANGED <<db, relayLedger, rng>>
          ELSE /\ db' = [db EXCEPT ![d] = r.s]
               /\ relayLedger' = RelayLedgerAppend(r.sent)
               /\ rng' = [rng EXCEPT ![d] = @ + 1]
               /\ job' = [job EXCEPT
                     ![d].i = IF stop THEN Len(jb.items) + 1 ELSE @ + 1,
                     ![d].err = stop,
                     ![d].answers = @ \cup {r.err}]
       /\ UNCHANGED <<local, app, relayEvents, relayInvites, relayClaims,
                       goroutines>>

\* ... and returns.
AcceptEnd(d) ==
    /\ job[d].phase = "claims"
    /\ job[d].i > Len(job[d].items)
    /\ job' = [job EXCEPT ![d] = Idle]
    /\ UNCHANGED <<db, local, app, relayEvents, relayMembership, rng,
                    goroutines>>

\* Engine.RefreshMembership, as Sync Now calls it.
RefreshMembershipCall(d, got) ==
    LET r == RefreshMembership(db[d], RelayMembers(db[d].vault_id), got)
    IN /\ app[d].engine
       /\ job[d].phase = "idle"
       /\ db' = [db EXCEPT ![d] = r.s]
       /\ UNCHANGED <<local, app, relayEvents, relayMembership, rng, job,
                       goroutines>>

\* Three registered devices, none in a vault.
InitMember ==
    /\ db = [d \in Devices |-> KeyedState]
    /\ local = [d \in Devices |-> EmptyMap]
    /\ app = [d \in Devices |-> Unlocked]
    /\ relayEvents = EmptyMap
    /\ relayLedger = EmptyMap
    /\ relayInvites = {}
    /\ relayClaims = << >>
    /\ rng = [d \in Devices |-> 0]
    /\ job = [d \in Devices |-> Idle]
    /\ push = [t \in Goroutines |-> Idle]
    /\ mu = [e \in Engines |-> Free]

\* The answers to a member_add of device d within the bounds.
BoundedAnswers(me) ==
    {a \in MemberEventAnswers(me) :
        a = NoError => Len(RelayLedgerOf(me.vault_id)) < MaxMemberSeq}

\* The founder creates vaults, invites the others, admits their claims and
\* refreshes; the others join.
NextMember ==
    \/ /\ rng[Founder] + 2 <= MaxDraws
       /\ \E answer \in {NoError, TransportError} :
             /\ answer = NoError => Cardinality(DOMAIN relayLedger) < MaxVaults
             /\ HandleSetupSyncCreate(Founder, answer)
    \/ /\ rng[Founder] < MaxDraws
       /\ Cardinality(relayInvites) < MaxInvites
       /\ \E target \in Devices \ {Founder} :
             HandleInviteDevice(Founder, target, TRUE)
    \/ \E d \in Devices \ {Founder}, invite \in relayInvites :
          \E claimed \in BOOLEAN, got \in BOOLEAN :
             HandleAcceptInvite(d, invite, claimed, got)
    \/ AcceptBegin(Founder, TRUE)
    \/ /\ rng[Founder] < MaxDraws
       /\ job[Founder].phase = "claims"
       /\ job[Founder].i <= Len(job[Founder].items)
       /\ \E got \in BOOLEAN :
             \E answer \in BoundedAnswers(
                   AdmissionEvent(db[Founder], Founder,
                       job[Founder].items[job[Founder].i],
                       DeviceBundle(job[Founder].items[job[Founder].i].device_id),
                       rng[Founder])) :
                AcceptNext(Founder, got, answer)
    \/ AcceptEnd(Founder)
    \/ \E got \in BOOLEAN : RefreshMembershipCall(Founder, got)

SpecMember == InitMember /\ [][NextMember]_vars

\* ------------------------------------------------------------- the lock

\* App.Update on ctrl+l: Store.Lock zeroes the store's key and the lock
\* screen comes up; the App keeps its SyncState and Engine.
CtrlL(d) ==
    /\ ~app[d].locked
    /\ app' = [app EXCEPT ![d].locked = TRUE]
    /\ UNCHANGED <<db, local, relayEvents, relayMembership, rng, job,
                    goroutines>>

\* App.Update on UnlockRequestMsg with the master password: Store.Unlock,
\* then handleUnlock, whose initSyncFromState builds a SyncState and, when
\* a relay URL is stored, an Engine.
UnlockRequest(d) ==
    /\ app[d].locked
    /\ app' = [app EXCEPT ![d] = [locked |-> FALSE,
                                  engine |-> db[d].server_url]]
    /\ UNCHANGED <<db, local, relayEvents, relayMembership, rng, job,
                    goroutines>>

\* App.Update on SaveEntriesMsg.
HandleSaveEntries(d, entries) ==
    /\ local' = [local EXCEPT ![d] = SaveEntries(app[d].locked, @, entries)]
    /\ UNCHANGED <<db, app, relayEvents, relayMembership, rng, job,
                    goroutines>>

\* The entry lists a SaveEntriesMsg carries.
SavedLists ==
    {[id \in ids |-> [id |-> id, ver |-> 1]] : ids \in SUBSET EntryIDs}

\* One device that locks and unlocks while messages and commands of its
\* sync keep arriving.
NextLock ==
    \/ CtrlL(Founder)
    \/ UnlockRequest(Founder)
    \/ \E entries \in SavedLists : HandleSaveEntries(Founder, entries)
    \/ \E entry \in Entries, op \in Ops :
          \E posted \in PostAnswers(Founder, MaxFailures) :
             HandleSyncPushEntry(Founder, entry, op, posted)
    \/ FlushBegin(Founder)
    \/ \E posted \in PostAnswers(Founder, MaxFailures) :
          FlushNext(Founder, posted)
    \/ FlushEnd(Founder)
    \/ \E pulled \in BOOLEAN : SyncEntriesCall(Founder, pulled)

SpecLock == Init /\ [][NextLock]_vars

\* ---------------------------------------------------- concurrent pushes

\* The Engine a goroutine calls: the UI's push command and Sync Now use
\* the App's Engine, handleSetupSync the Engine it built for itself.
EngineOf(t) == IF t = "setup" THEN "setup" ELSE "app"

Upserts(entries) ==
    [i \in 1..Len(entries) |-> [op |-> "upsert", entry |-> entries[i]]]

\* App.handleSyncPushEntry as a command that has started.
UIPush(d, entry, op) ==
    /\ app[d].engine
    /\ push["ui"].phase = "idle"
    /\ push' = [push EXCEPT !["ui"] =
          [phase |-> "call", items |-> <<[op |-> op, entry |-> entry]>>,
           i |-> 1]]
    /\ UNCHANGED <<db, local, app, relayEvents, relayMembership, rng, job,
                    mu>>

\* App.seedLocalEntriesIfNeeded inside Sync Now, up to its loop.
SyncSeed(d) ==
    /\ app[d].engine
    /\ push["sync"].phase = "idle"
    /\ local[d] # EmptyMap
    /\ db[d].has_keys
    /\ GetEventHead(db[d], d).counter = 0
    /\ push' = [push EXCEPT !["sync"] =
          [phase |-> "call", items |-> Upserts(EntryList(local[d])),
           i |-> 1]]
    /\ UNCHANGED <<db, local, app, relayEvents, relayMembership, rng, job,
                    mu>>

\* App.handleSetupSync, action "create", up to its seeding loop: a
\* SyncState and an Engine of its own, CreateVault, the entries of the
\* vault screen to push.
SetupSync(d, answer) ==
    LET r == CreateVault(db[d], d, rng[d], answer)
        entries == Upserts(EntryList(local[d]))
    IN /\ ~app[d].locked
       /\ push["setup"].phase = "idle"
       /\ mu["setup"] = Free
       /\ db' = [db EXCEPT ![d] = r.s]
       /\ relayLedger' = RelayLedgerAppend(r.sent)
       /\ rng' = [rng EXCEPT ![d] = @ + 2]
       /\ push' = [push EXCEPT !["setup"] =
             IF r.err.kind # "none" \/ entries = << >> THEN Idle
             ELSE [phase |-> "call", items |-> entries, i |-> 1]]
       /\ UNCHANGED <<local, app, relayEvents, relayInvites, relayClaims,
                       job, mu>>

\* PushEntry from e.mu.Lock() to GetEventHead: the goroutine holds the
\* lock of its Engine and has read vault id, key epoch and event head.
PushEntryLock(d, t) ==
    /\ push[t].phase = "call"
    /\ mu[EngineOf(t)] = Free
    /\ mu' = [mu EXCEPT ![EngineOf(t)] = t]
    /\ push' = [push EXCEPT ![t] =
          [phase |-> "read", items |-> @.items, i |-> @.i,
           vault_id |-> db[d].vault_id, key_epoch |-> db[d].key_epoch,
           head |-> GetEventHead(db[d], d)]]
    /\ UNCHANGED <<db, local, app, relayEvents, relayMembership, rng, job>>

\* PushEntry's IncrementLamport: one transaction of the store.
PushEntryClock(d, t) ==
    /\ push[t].phase = "read"
    /\ db' = [db EXCEPT ![d] = IncrementLamport(@)]
    /\ push' = [push EXCEPT ![t] =
          [phase |-> "clock", items |-> @.items, i |-> @.i,
           vault_id |-> @.vault_id, key_epoch |-> @.key_epoch,
           head |-> @.head, lamport |-> IncrementLamport(db[d]).lamport]]
    /\ UNCHANGED <<local, app, relayEvents, relayMembership, rng, job, mu>>

\* What the caller does with PushEntry's result: handleSyncPushEntry and
\* seedLocalEntriesIfNeeded queue a failed item and strike a pushed one
\* from the queue, handleSetupSync does neither.
AfterPush(s, t, item, err) ==
    IF t = "setup" THEN s
    ELSE IF err THEN AddPendingEntry(s, item.op, item.entry)
    ELSE RemovePendingEntry(s, item.entry.id)

\* Where the caller goes on: the seeding of Sync Now takes the next entry
\* whatever happened, the seeding of Setup Sync returns on the first
\* error.
NextCall(t, p, err) ==
    IF p.i >= Len(p.items) \/ (t = "setup" /\ err) THEN Idle
    ELSE [phase |-> "call", items |-> p.items, i |-> p.i + 1]

\* PushEntry from encryptEventPayload to its return: the event is built
\* on the head and the lamport the call holds, POSTed, and on success
\* the head is stored; the deferred Unlock; the caller's handling.
PushEntryPost(d, t, posted) ==
    LET p == push[t]
        item == p.items[p.i]
        read == [db[d] EXCEPT !.vault_id = p.vault_id,
                              !.key_epoch = p.key_epoch]
        ev == BuildEvent(read, d, p.head, p.lamport, item.entry, item.op,
                         rng[d])
        s1 == IF posted THEN PushCommit(db[d], d, ev, item.entry, item.op)
              ELSE db[d]
    IN /\ p.phase = "clock"
       /\ db' = [db EXCEPT ![d] = AfterPush(s1, t, item, ~posted)]
       /\ relayEvents' = RelayAppend(IF posted THEN <<ev>> ELSE << >>)
       /\ rng' = [rng EXCEPT ![d] = @ + 1]
       /\ mu' = [mu EXCEPT ![EngineOf(t)] = Free]
       /\ push' = [push EXCEPT ![t] = NextCall(t, p, ~posted)]
       /\ UNCHANGED <<local, app, relayMembership, job>>

\* The events of device d the relay stores, over all vaults.
StoredBy(d) ==
    {ev \in UNION {Range(relayEvents[v]) : v \in DOMAIN relayEvents} :
        ev.device_id = d}

\* The event POSTs of d that were not stored: every PushEntry call took
\* one step of the clock, and no other call did.
FailedPushes(d) ==
    db[d].lamport - Cardinality(StoredBy(d))
    - Cardinality({t \in Goroutines : push[t].phase = "clock"})

PushAnswers(d) ==
    {x \in {TRUE} : RelayHasRoom(db[d].vault_id)}
    \cup {x \in {FALSE} : FailedPushes(d) < MaxFailures}

\* A device with keys, a relay URL and two entries, not yet in a vault:
\* Setup Sync, the UI's pushes and Sync Now run side by side.
InitPush ==
    /\ db = [d \in Devices |-> KeyedState]
    /\ local = [d \in Devices |->
                  IF d = Founder
                  THEN [id \in EntryIDs |-> [id |-> id, ver |-> 1]]
                  ELSE EmptyMap]
    /\ app = [d \in Devices |-> Unlocked]
    /\ relayEvents = EmptyMap
    /\ relayLedger = EmptyMap
    /\ relayInvites = {}
    /\ relayClaims = << >>
    /\ rng = [d \in Devices |-> 0]
    /\ job = [d \in Devices |-> Idle]
    /\ push = [t \in Goroutines |-> Idle]
    /\ mu = [e \in Engines |-> Free]

NextPush ==
    \/ /\ db[Founder].vault_id = NoVault
       /\ SetupSync(Founder, NoError)
    \/ /\ db[Founder].vault_id # NoVault
       /\ \E entry \in Entries, op \in Ops : UIPush(Founder, entry, op)
    \/ /\ db[Founder].vault_id # NoVault
       /\ SyncSeed(Founder)
    \/ \E t \in Goroutines : PushEntryLock(Founder, t)
    \/ \E t \in Goroutines : PushEntryClock(Founder, t)
    \/ \E t \in Goroutines, posted \in PushAnswers(Founder) :
          PushEntryPost(Founder, t, posted)

SpecPush == InitPush /\ [][NextPush]_vars

\* ------------------------------------------------- pulls, stale members

Third == 3

\* Device 3 is in the vault: the relay's ledger holds its admission.
Admitted3 == Len(RelayLedgerOf(db[Founder].vault_id)) = 3

\* After the founding the founder invites device 3, device 3 joins and
\* the founder admits it.  From then on the founder and device 3 push,
\* the founder and device 2 pull, and device 2, whose verified members
\* date from before, refreshes its membership now and then; pulls and
\* refreshes may fail in transport.
NextPull ==
    \/ /\ Cardinality(relayInvites) < MaxInvites
       /\ HandleInviteDevice(Founder, Third, TRUE)
    \/ \E invite \in relayInvites :
          HandleAcceptInvite(Third, invite, TRUE, TRUE)
    \/ /\ ~Admitted3
       /\ AcceptBegin(Founder, TRUE)
    \/ /\ rng[Founder] < MaxDraws
       /\ job[Founder].phase = "claims"
       /\ job[Founder].i <= Len(job[Founder].items)
       /\ \E answer \in BoundedAnswers(
                AdmissionEvent(db[Founder], Founder,
                    job[Founder].items[job[Founder].i],
                    DeviceBundle(job[Founder].items[job[Founder].i].device_id),
                    rng[Founder])) :
             AcceptNext(Founder, TRUE, answer)
    \/ AcceptEnd(Founder)
    \/ /\ Admitted3
       /\ job[Founder].phase = "idle"
       /\ RelayHasRoom(db[Founder].vault_id)
       /\ \E d \in {Founder, Third}, entry \in Entries, op \in Ops :
             HandleSyncPushEntry(d, entry, op, TRUE)
    \/ /\ Admitted3
       /\ job[Founder].phase = "idle"
       /\ \E d \in {Founder, Joiner}, pulled \in BOOLEAN :
             SyncEntriesCall(d, pulled)
    \/ /\ Admitted3
       /\ \E got \in BOOLEAN : RefreshMembershipCall(Joiner, got)

SpecPull == Init /\ [][NextPull]_vars

\* ------------------------------------------------------------- Sync Now

\* App.isSyncOwner: an unset owner reads as "not the owner".
isSyncOwner(s, d) == s.owner # NoDevice /\ s.owner = d

\* Engine.AcceptPendingInviteClaims as one call.  got is FALSE when
\* GET /invite_claims failed; answers[i] is what the relay answers to the
\* member_add POST for claims[i].
RECURSIVE AcceptLoop(_, _, _, _, _, _)
AcceptLoop(f, d, claims, i, vaultID, answers) ==
    IF i > Len(claims) THEN f
    ELSE IF claims[i].vault_id # vaultID
    THEN AcceptLoop(f, d, claims, i + 1, vaultID, answers)
    ELSE CHOOSE out \in
           {LET g == [s |-> r.s, n |-> f.n + 1, sent |-> f.sent \o r.sent,
                      err |-> FALSE]
            IN IF r.err.kind # "none" /\ ~isInviteAlreadyUsed(r.err)
               THEN [g EXCEPT !.err = TRUE]
               ELSE AcceptLoop(g, d, claims, i + 1, vaultID, answers) :
               r \in {AcceptInviteClaim(f.s, d, claims[i], f.n, TRUE,
                                        answers[i])}} : TRUE

AcceptPendingInviteClaims_FirstOnly(s, d, claims, n, got, answers) ==
    LET f == [s |-> s, n |-> n, sent |-> << >>, err |-> FALSE]
    IN IF ~s.has_keys \/ ~got THEN [f EXCEPT !.err = TRUE]
       ELSE IF claims = << >> THEN f
       ELSE IF s.vault_id = NoVault THEN [f EXCEPT !.err = TRUE]
       ELSE AcceptLoop(f, d, SubSeq(claims, 1, 1), 1, s.vault_id, answers)
AcceptPendingInviteClaims(s, d, claims, n, got, answers) ==
    LET f == [s |-> s, n |-> n, sent |-> << >>, err |-> FALSE]
    IN IF ~s.has_keys \/ ~got THEN [f EXCEPT !.err = TRUE]
       ELSE IF claims = << >> THEN f
       ELSE IF s.vault_id = NoVault THEN [f EXCEPT !.err = TRUE]
       ELSE AcceptLoop(f, d, claims, 1, s.vault_id, answers)

\* App.acceptInviteClaimsIfOwner.
acceptInviteClaimsIfOwner(s, d, claims, n, got, answers) ==
    LET f == [s |-> s, n |-> n, sent |-> << >>, err |-> FALSE]
    IN IF ~s.has_keys THEN [f EXCEPT !.err = TRUE]
       ELSE IF ~isSyncOwner(s, d) THEN f
       ELSE AcceptPendingInviteClaims(s, d, claims, n, got, answers)

\* The relay gives one answer to every member_add POST of d's call.
EachAnswer(d, answer) == [i \in 1..Len(RelayClaimsFor(d)) |-> answer]

\* App.seedLocalEntriesIfNeeded as one call; posts[i] is the relay's
\* answer to the i-th POST.
RECURSIVE SeedLoop(_, _, _, _, _)
SeedLoop(f, d, entries, i, posts) ==
    IF i > Len(entries) THEN f
    ELSE SeedLoop(SeedItem(f, d, entries[i], posts[i]), d, entries, i + 1,
                  posts)

seedLocalEntriesIfNeeded_NonEmptyList(s, d, entries, n, posts) ==
    LET f == [s |-> s, n |-> n, sent |-> << >>, err |-> FALSE]
    IN IF entries = << >> THEN f
       ELSE IF ~s.has_keys THEN [f EXCEPT !.err = TRUE]
       ELSE SeedLoop(f, d, entries, 1, posts)
seedLocalEntriesIfNeeded(s, d, entries, n, posts) ==
    LET f == [s |-> s, n |-> n, sent |-> << >>, err |-> FALSE]
    IN IF entries = << >> THEN f
       ELSE IF ~s.has_keys THEN [f EXCEPT !.err = TRUE]
       ELSE IF GetEventHead(s, d).counter # 0 THEN f
       ELSE SeedLoop(f, d, entries, 1, posts)

\* Engine.FlushPendingEntries as one call.
RECURSIVE FlushLoop(_, _, _, _, _)
FlushLoop(f, d, items, i, posts) ==
    IF i > Len(items) THEN f
    ELSE FlushLoop(FlushItem(f, d, items[i], posts[i]), d, items, i + 1,
                   posts)

FlushPendingEntries(s, d, n, posts) ==
    FlushLoop([s |-> s, n |-> n, sent |-> << >>, err |-> FALSE,
               firstErr |-> << >>], d, GetPendingEntries(s), 1, posts)

\* mergeSyncWarning: a warning is the sequence of the messages joined by
\* "; ", the empty sequence is nil.
mergeSyncWarning(current, next) ==
    IF next = << >> THEN current
    ELSE IF current = << >> THEN next
    ELSE current \o next

\* The order of the calls in the closure of App.handleSyncNow.
SyncNowAfter_MergeEarly(step) ==
    CASE step = "accept" -> "merge"
      [] step = "merge" -> "refresh"
      [] step = "refresh" -> "seed"
      [] step = "seed" -> "flush"
      [] step = "flush" -> "return"
SyncNowAfter(step) ==
    CASE step = "accept" -> "refresh"
      [] step = "refresh" -> "seed"
      [] step = "seed" -> "flush"
      [] step = "flush" -> "merge"
      [] step = "merge" -> "return"

\* The command's position after a call: the next call, or the message it
\* returns once the last call is behind it or a call's error ends it.
SyncNowGoes(jb, step, fatal, failed, warning, entries) ==
    LET to == IF fatal THEN "return" ELSE SyncNowAfter(step)
    IN [phase |-> IF to = "return" THEN "done" ELSE "syncnow",
        pc |-> to,
        msg |-> IF fatal THEN "SyncNowFailMsg"
                ELSE IF to = "return" THEN "SyncNowCompleteMsg"
                ELSE jb.msg,
        entries |-> entries,
        steps |-> Append(jb.steps, step),
        failed |-> IF failed THEN jb.failed \cup {step} ELSE jb.failed,
        warn |-> warning]

\* App.handleSyncNow: the entries of the vault screen are copied and the
\* command starts.
HandleSyncNow(d) ==
    /\ app[d].engine
    /\ job[d].phase = "idle"
    /\ job' = [job EXCEPT ![d] =
          [phase |-> "syncnow", pc |-> "accept", msg |-> "",
           entries |-> local[d], steps |-> << >>, failed |-> {},
           warn |-> << >>]]
    /\ UNCHANGED <<db, local, app, relayEvents, relayMembership, rng,
                    goroutines>>

\* a.acceptInviteClaimsIfOwner(): an error ends the command.
SyncNowAccept(d, got, answers) ==
    LET jb == job[d]
    IN /\ jb.phase = "syncnow"
       /\ jb.pc = "accept"
       /\ \E r \in {acceptInviteClaimsIfOwner(db[d], d, RelayClaimsFor(d),
                                              rng[d], got, answers)} :
             /\ db' = [db EXCEPT ![d] = r.s]
             /\ relayLedger' = RelayLedgerAppend(r.sent)
             /\ rng' = [rng EXCEPT ![d] = r.n]
             /\ job' = [job EXCEPT ![d] =
                   SyncNowGoes(jb, "accept", r.err, r.err, jb.warn,
                               jb.entries)]
       /\ UNCHANGED <<local, app, relayEvents, relayInvites, relayClaims,
                       goroutines>>

\* a.syncEngine.RefreshMembership(): an error becomes a warning.
SyncNowRefresh(d, got) ==
    LET jb == job[d]
        r == RefreshMembership(db[d], RelayMembers(db[d].vault_id), got)
        w == IF r.err THEN <<"refresh">> ELSE << >>
    IN /\ jb.phase = "syncnow"
       /\ jb.pc = "refresh"
       /\ db' = [db EXCEPT ![d] = r.s]
       /\ job' = [job EXCEPT ![d] =
             SyncNowGoes(jb, "refresh", FALSE, r.err,
                         mergeSyncWarning(jb.warn, w), jb.entries)]
       /\ UNCHANGED <<local, app, relayEvents, relayMembership, rng,
                       goroutines>>

\* a.seedLocalEntriesIfNeeded(entries): an error becomes a warning.
SyncNowSeed(d, posts) ==
    LET jb == job[d]
        r == seedLocalEntriesIfNeeded(db[d], d, EntryList(jb.entries),
                                      rng[d], posts)
        w == IF r.err THEN <<"seed">> ELSE << >>
    IN /\ jb.phase = "syncnow"
       /\ jb.pc = "seed"
       /\ db' = [db EXCEPT ![d] = r.s]
       /\ relayEvents' = RelayAppend(r.sent)
       /\ rng' = [rng EXCEPT ![d] = r.n]
       /\ job' = [job EXCEPT ![d] =
             SyncNowGoes(jb, "seed", FALSE, r.err,
                         mergeSyncWarning(jb.warn, w), jb.entries)]
       /\ UNCHANGED <<local, app, relayMembership, goroutines>>

\* a.syncEngine.FlushPendingEntries(): an error becomes a warning if there
\* is no warning yet.
SyncNowFlush(d, posts) ==
    LET jb == job[d]
        r == FlushPendingEntries(db[d], d, rng[d], posts)
        w == IF r.err /\ jb.warn = << >> THEN <<"flush">> ELSE << >>
    IN /\ jb.phase = "syncnow"
       /\ jb.pc = "flush"
       /\ db' = [db EXCEPT ![d] = r.s]
       /\ relayEvents' = RelayAppend(r.sent)
       /\ rng' = [rng EXCEPT ![d] = r.n]
       /\ job' = [job EXCEPT ![d] =
             SyncNowGoes(jb, "flush", FALSE, r.err,
                         mergeSyncWarning(jb.warn, w), jb.entries)]
       /\ UNCHANGED <<local, app, relayMembership, goroutines>>

\* a.syncEngine.SyncEntries(entries): an error ends the command, the
\* merged list goes into SyncNowCompleteMsg with the warning.
SyncNowMerge(d, pulled) ==
    LET jb == job[d]
        batch == RelayPull(db[d].vault_id, db[d].sync_cursor)
        r == SyncEntries(db[d], jb.entries, batch, pulled)
    IN /\ jb.phase = "syncnow"
       /\ jb.pc = "merge"
       /\ db' = [db EXCEPT ![d] = r.s]
       /\ job' = [job EXCEPT ![d] =
             SyncNowGoes(jb, "merge", r.err, r.err, jb.warn, r.result)]
       /\ UNCHANGED <<local, app, relayEvents, relayMembership, rng,
                       goroutines>>

\* App.Update on SyncNowCompleteMsg and on SyncNowFailMsg.
HandleSyncNowResult(d) ==
    /\ job[d].phase = "done"
    /\ local' = [local EXCEPT ![d] =
                   IF job[d].msg = "SyncNowCompleteMsg"
                   THEN SaveEntries(app[d].locked, @, job[d].entries)
                   ELSE @]
    /\ job' = [job EXCEPT ![d] = Idle]
    /\ UNCHANGED <<db, app, relayEvents, relayMembership, rng, goroutines>>

\* The answers to the POSTs of a loop that makes at most k of them: stored
\* while the log has room, not stored while fewer than budget POSTs of d
\* have failed.
Tally(posts, k, b) == Cardinality({i \in 1..k : posts[i] = b})

PostRuns(d, k, budget) ==
    {posts \in [1..Cardinality(EntryIDs) -> BOOLEAN] :
        /\ Tally(posts, k, TRUE)
              <= MaxEvents - Len(RelayLog(db[d].vault_id))
        /\ Tally(posts, k, FALSE) <= budget - FailedPosts(d)
        /\ \A i \in (k + 1)..Cardinality(EntryIDs) : posts[i]}

\* The founder edits its entries, pushes, and runs Sync Now cycles whose
\* sub-steps may fail; device 2 pushes.
NextSyncNow ==
    \/ /\ job[Founder].phase = "idle"
       /\ \E entries \in SavedLists : HandleSaveEntries(Founder, entries)
    \/ /\ job[Founder].phase = "idle"
       /\ \E entry \in Entries, op \in Ops :
             \E posted \in PostAnswers(Founder, MaxFlushFailures) :
                HandleSyncPushEntry(Founder, entry, op, posted)
    \/ /\ RelayHasRoom(db[Joiner].vault_id)
       /\ \E entry \in Entries, op \in Ops :
             HandleSyncPushEntry(Joiner, entry, op, TRUE)
    \/ /\ rng[Founder] < MaxDraws
       /\ HandleSyncNow(Founder)
    \/ \E got \in BOOLEAN :
          \E answer \in AlreadyUsedAnswers \cup {TransportError} :
             SyncNowAccept(Founder, got, EachAnswer(Founder, answer))
    \/ \E got \in BOOLEAN : SyncNowRefresh(Founder, got)
    \/ /\ job[Founder].phase = "syncnow"
       /\ \E posts \in PostRuns(Founder,
                                Cardinality(DOMAIN job[Founder].entries),
                                MaxFlushFailures) :
             SyncNowSeed(Founder, posts)
    \/ /\ job[Founder].phase = "syncnow"
       /\ \E posts \in PostRuns(Founder,
                                Len(GetPendingEntries(db[Founder])),
                                MaxFlushFailures) :
             SyncNowFlush(Founder, posts)
    \/ \E pulled \in BOOLEAN : SyncNowMerge(Founder, pulled)
    \/ HandleSyncNowResult(Founder)

SpecSyncNow == Init /\ [][NextSyncNow]_vars

\* The founder's UI stays in use while a Sync Now command runs in its
\* goroutine: entries are saved and pushed at any point of the command.
NextInFlight ==
    \/ \E entries \in SavedLists : HandleSaveEntries(Founder, entries)
    \/ /\ RelayHasRoom(db[Founder].vault_id)
       /\ \E entry \in Entries, op \in Ops :
             HandleSyncPushEntry(Founder, entry, op, TRUE)
    \/ /\ rng[Founder] < MaxDraws
       /\ HandleSyncNow(Founder)
    \/ \E answer \in AlreadyUsedAnswers :
          SyncNowAccept(Founder, TRUE, EachAnswer(Founder, answer))
    \/ SyncNowRefresh(Founder, TRUE)
    \/ /\ job[Founder].phase = "syncnow"
       /\ \E posts \in PostRuns(Founder,
                                Cardinality(DOMAIN job[Founder].entries),
                                MaxFailures) :
             SyncNowSeed(Founder, posts)
    \/ /\ job[Founder].phase = "syncnow"
       /\ \E posts \in PostRuns(Founder,
                                Len(GetPendingEntries(db[Founder])),
                                MaxFailures) :
             SyncNowFlush(Founder, posts)
    \/ SyncNowMerge(Founder, TRUE)
    \/ HandleSyncNowResult(Founder)

SpecInFlight == Init /\ [][NextInFlight]_vars

\* --------------------------------------------------------------- seeding

\* App.handleInviteDevice on a device with entries: the entries of the
\* vault screen are seeded if needed, an error of the seeding ends the
\* command, and then the invite is created.
HandleInviteDeviceSeeding(d, target, posts, posted) ==
    LET r == seedLocalEntriesIfNeeded(db[d], d, EntryList(local[d]), rng[d],
                                      posts)
        i == InviteDevice(r.s, d, DeviceBundle(target), r.n, posted)
    IN /\ app[d].engine
       /\ job[d].phase = "idle"
       /\ db' = [db EXCEPT ![d] = r.s]
       /\ relayEvents' = RelayAppend(r.sent)
       /\ relayInvites' = IF r.err THEN relayInvites
                          ELSE relayInvites \cup Range(i.sent)
       /\ rng' = [rng EXCEPT ![d] = IF r.err THEN r.n ELSE r.n + 1]
       /\ job' = [job EXCEPT ![d] =
             [phase |-> "invited",
              msg |-> IF r.err \/ i.err THEN "InviteFailMsg"
                      ELSE "InviteCreatedMsg"]]
       /\ UNCHANGED <<local, app, relayLedger, relayClaims, goroutines>>

\* App.Update on InviteCreatedMsg and on InviteFailMsg.
HandleInviteResult(d) ==
    /\ job[d].phase = "invited"
    /\ job' = [job EXCEPT ![d] = Idle]
    /\ UNCHANGED <<db, local, app, relayEvents, relayMembership, rng,
                    goroutines>>

\* The founder edits its entries, pushes, runs Sync Now and invites
\* device 3; only the POSTs of events may fail.
NextSeed ==
    \/ /\ job[Founder].phase = "idle"
       /\ \E entries \in SavedLists : HandleSaveEntries(Founder, entries)
    \/ /\ job[Founder].phase = "idle"
       /\ \E entry \in Entries :
             \E posted \in PostAnswers(Founder, MaxFailures) :
                HandleSyncPushEntry(Founder, entry, "upsert", posted)
    \/ /\ rng[Founder] < MaxDraws
       /\ HandleSyncNow(Founder)
    \/ \E answer \in AlreadyUsedAnswers :
          SyncNowAccept(Founder, TRUE, EachAnswer(Founder, answer))
    \/ SyncNowRefresh(Founder, TRUE)
    \/ /\ job[Founder].phase = "syncnow"
       /\ \E posts \in PostRuns(Founder,
                                Cardinality(DOMAIN job[Founder].entries),
                                MaxFailures) :
             SyncNowSeed(Founder, posts)
    \/ /\ job[Founder].phase = "syncnow"
       /\ \E posts \in PostRuns(Founder,
                                Len(GetPendingEntries(db[Founder])),
                                MaxFailures) :
             SyncNowFlush(Founder, posts)
    \/ SyncNowMerge(Founder, TRUE)
    \/ HandleSyncNowResult(Founder)
    \/ /\ Cardinality(relayInvites) < MaxInvites
       /\ \E posts \in PostRuns(Founder, Cardinality(DOMAIN local[Founder]),
                                MaxFailures) :
             HandleInviteDeviceSeeding(Founder, Third, posts, TRUE)
    \/ HandleInviteResult(Founder)

SpecSeed == Init /\ [][NextSeed]_vars

\* ----------------------------------------------------------- leave vault

\* The transactions of App.handleLeaveVault in the order of its calls.
LeaveVaultAfter(step) ==
    CASE step = "ClearVaultState" -> "ClearVerifiedMembers"
      [] step = "ClearVerifiedMembers" -> "ClearEventHeads"
      [] step = "ClearEventHeads" -> "ClearPendingEntries"
      [] step = "ClearPendingEntries" -> "return"

LeaveVaultClear(s, step) ==
    CASE step = "ClearVaultState" -> ClearVaultState(s)
      [] step = "ClearVerifiedMembers" -> ClearVerifiedMembers(s)
      [] step = "ClearEventHeads" -> ClearEventHeads(s)
      [] step = "ClearPendingEntries" -> ClearPendingEntries(s)

\* App.handleLeaveVault: the command starts; a locked vault ends it with
\* LeaveVaultFailMsg.
HandleLeaveVault(d) ==
    /\ job[d].phase = "idle"
    /\ job' = [job EXCEPT ![d] =
          IF app[d].locked
          THEN [phase |-> "left", pc |-> "return", msg |-> "LeaveVaultFailMsg"]
          ELSE [phase |-> "leave", pc |-> "ClearVaultState", msg |-> ""]]
    /\ UNCHANGED <<db, local, app, relayEvents, relayMembership, rng,
                    goroutines>>

\* One transaction of the command; ok is whether the database commits it.
\* An error ends the command with LeaveVaultFailMsg, the last transaction
\* ends it with LeaveVaultCompleteMsg.
LeaveVaultStep(d, ok) ==
    LET jb == job[d]
        to == IF ok THEN LeaveVaultAfter(jb.pc) ELSE "return"
    IN /\ jb.phase = "leave"
       /\ db' = [db EXCEPT ![d] = IF ok THEN LeaveVaultClear(@, jb.pc) ELSE @]
       /\ job' = [job EXCEPT ![d] =
             [phase |-> IF to = "return" THEN "left" ELSE "leave",
              pc |-> to,
              msg |-> IF ~ok THEN "LeaveVaultFailMsg"
                      ELSE IF to = "return" THEN "LeaveVaultCompleteMsg"
                      ELSE ""]]
       /\ UNCHANGED <<local, app, relayEvents, relayMembership, rng,
                       goroutines>>

\* App.Update on LeaveVaultCompleteMsg (initSyncFromState builds the engine
\* again if a server URL is stored) and on LeaveVaultFailMsg.
HandleLeaveVaultResult(d) ==
    /\ job[d].phase = "left"
    /\ app' = [app EXCEPT ![d].engine =
                 IF job[d].msg = "LeaveVaultCompleteMsg"
                 THEN ~app[d].locked /\ db[d].server_url
                 ELSE @]
    /\ job' = [job EXCEPT ![d] = Idle]
    /\ UNCHANGED <<db, local, relayEvents, relayMembership, rng, goroutines>>

\* Device 2 edits and pushes entries, leaves the vault and joins again with
\* a fresh invite of the founder; its pushes run between the transactions
\* of the leave as well.
NextLeave ==
    \/ \E entries \in SavedLists : HandleSaveEntries(Joiner, entries)
    \/ \E entry \in Entries :
          \E posted \in PostAnswers(Joiner, MaxFailures) :
             HandleSyncPushEntry(Joiner, entry, "upsert", posted)
    \/ HandleLeaveVault(Joiner)
    \/ \E ok \in BOOLEAN : LeaveVaultStep(Joiner, ok)
    \/ HandleLeaveVaultResult(Joiner)
    \/ /\ Cardinality(relayInvites) < MaxInvites
       /\ HandleInviteDevice(Founder, Joiner, TRUE)
    \/ \E invite \in relayInvites :
          \E claimed, got \in BOOLEAN :
             HandleAcceptInvite(Joiner, invite, claimed, got)

SpecLeave == Init /\ [][NextLeave]_vars

\* ------------------------------------------------------------ admission

\* The invites of device d for target into d's vault.
InvitesBy(d, target) ==
    {inv \in relayInvites : /\ inv.created_by_device_id = d
                            /\ inv.target_device_id = target
                            /\ inv.vault_id = db[d].vault_id}

\* Device 3 creates a vault of its own; the founder invites it and it
\* accepts from its sync screen, whose Setup Sync entry stays available;
\* devices 2 and 3 invite each other and run Sync Now.
NextOwner ==
    \/ /\ db[Third].vault_id = NoVault
       /\ HandleSetupSyncCreate(Third, NoError)
    \/ \E pair \in {<<Founder, Third>>, <<Third, Joiner>>,
                     <<Joiner, Third>>} :
          /\ db[pair[1]].vault_id # NoVault
          /\ InvitesBy(pair[1], pair[2]) = {}
          /\ HandleInviteDevice(pair[1], pair[2], TRUE)
    \/ \E d \in {Joiner, Third}, invite \in relayInvites :
          HandleAcceptInvite(d, invite, TRUE, TRUE)
    \/ \E d \in {Joiner, Third} :
          /\ rng[d] < MaxDraws
          /\ RelayClaimsFor(d) # << >>
          /\ \A e \in Devices : job[e].phase = "idle"
          /\ HandleSyncNow(d)
    \/ \E d \in {Joiner, Third} :
          \E answer \in {NoError, TransportError} :
             /\ answer = NoError =>
                   Len(RelayLedgerOf(db[d].vault_id)) < MaxMemberSeq
             /\ SyncNowAccept(d, TRUE, EachAnswer(d, answer))
    \/ \E d \in {Joiner, Third} : SyncNowRefresh(d, TRUE)
    \/ \E d \in {Joiner, Third} :
          SyncNowSeed(d, [i \in 1..Cardinality(EntryIDs) |-> TRUE])
    \/ \E d \in {Joiner, Third} :
          SyncNowFlush(d, [i \in 1..Cardinality(EntryIDs) |-> TRUE])
    \/ \E d \in {Joiner, Third} : SyncNowMerge(d, TRUE)
    \/ \E d \in {Joiner, Third} : HandleSyncNowResult(d)

SpecOwner == Init /\ [][NextOwner]_vars

\* ------------------------------------------------------------ tampering

\* The fields of an Event that its signature covers.
SignedFields ==
    {"event_id", "vault_id", "device_id", "counter", "lamport", "key_epoch",
     "prev_hash", "nonce", "ciphertext"}

\* Event ev with one signed field changed and the signature kept.  The
\* changed ciphertext is a sealed payload of the vault's key and ev's nonce
\* with the operation swapped, so that only the signature tells it apart.
Tampered(ev, field, key) ==
    CASE field = "event_id" -> [ev EXCEPT !.event_id = ZeroUUID]
      [] field = "vault_id" -> [ev EXCEPT !.vault_id = ZeroUUID]
      [] field = "device_id" ->
            [ev EXCEPT !.device_id = IF @ = Founder THEN Joiner ELSE Founder]
      [] field = "counter" -> [ev EXCEPT !.counter = @ + 1]
      [] field = "lamport" -> [ev EXCEPT !.lamport = @ + 1]
      [] field = "key_epoch" -> [ev EXCEPT !.key_epoch = @ + 1]
      [] field = "prev_hash" -> [ev EXCEPT !.prev_hash = Sha256(<<"other">>)]
      [] field = "nonce" -> [ev EXCEPT !.nonce = <<"nonce", 0, 0>>]
      [] field = "ciphertext" ->
            [ev EXCEPT !.ciphertext =
                Seal("v2", key, ev.nonce,
                     MarshalPayload(
                        IF UnmarshalPayload(@.pt).op = "upsert"
                        THEN "delete" ELSE "upsert",
                        UnmarshalPayload(@.pt).entry))]

\* The relay hands out the i-th event of vault v with one field changed.
RelayTamper(v, i, field) ==
    /\ Has(relayEvents, v)
    /\ i \in 1..Len(relayEvents[v])
    /\ relayEvents' = [relayEvents EXCEPT ![v][i] =
          Tampered(@, field, relayEvents[v][i].ciphertext.key)]
    /\ UNCHANGED <<db, local, app, relayMembership, rng, job, goroutines>>

\* The founder pushes, the relay changes a field of an event it has not
\* changed yet, and device 2 pulls.
NextTamper ==
    \/ /\ RelayHasRoom(db[Founder].vault_id)
       /\ \E entry \in Entries, op \in Ops :
             HandleSyncPushEntry(Founder, entry, op, TRUE)
    \/ \E v \in DOMAIN relayEvents :
          \E i \in 1..Len(relayEvents[v]), field \in SignedFields :
             /\ relayEvents[v][i].signature.over
                   = EventSignBytes(relayEvents[v][i])
             /\ RelayTamper(v, i, field)
    \/ SyncEntriesCall(Joiner, TRUE)

SpecTamper == Init /\ [][NextTamper]_vars

\* -------------------------------------------------------- legacy events

\* The ways a member's release seals a payload: as decryptEventPayloadXChaCha
\* opens it, as decryptEventPayloadLegacy opens it, or under a key that is
\* not the event key of the vault and the event's epoch.
Sealings == {"v2", "legacy", "foreign"}

SealAs(sealing, s, op, entry, nonce) ==
    CASE sealing = "v2" ->
            Seal("v2", deriveEventKey(s.vault_key, s.key_epoch), nonce,
                 MarshalPayload(op, entry))
      [] sealing = "legacy" ->
            Seal("legacy", deriveLegacyEventKey(s.vault_key, s.key_epoch),
                 nonce, MarshalPayload(op, entry))
      [] sealing = "foreign" ->
            Seal("legacy", deriveLegacyEventKey(s.vault_key, s.key_epoch + 1),
                 nonce, MarshalPayload(op, entry))

\* A push of member d whose payload is sealed in one of these ways; the
\* event is chained and signed as PushEntry does it.
PushSealed(d, entry, op, sealing) ==
    LET s == db[d]
        head == GetEventHead(s, d)
        s1 == IncrementLamport(s)
        nonce == <<"nonce", d, rng[d]>>
        ct == SealAs(sealing, s, op, entry, nonce)
        bytes == SignBytesEvent(NewUUID(d, rng[d]), s.vault_id, d,
                                head.counter + 1, s1.lamport, s.key_epoch,
                                head.hash, nonce, ct)
        ev == [event_id |-> NewUUID(d, rng[d]), vault_id |-> s.vault_id,
               device_id |-> d, counter |-> head.counter + 1,
               lamport |-> s1.lamport, key_epoch |-> s.key_epoch,
               prev_hash |-> head.hash, nonce |-> nonce, ciphertext |-> ct,
               signature |-> Sign(d, bytes)]
    IN /\ s.has_keys
       /\ s.vault_id # NoVault
       /\ s.vault_key # NoKey
       /\ db' = [db EXCEPT ![d] =
             SetEventHead(s1, d, [counter |-> ev.counter,
                                  hash |-> Sha256(EventSignBytes(ev))])]
       /\ relayEvents' = RelayAppend(<<ev>>)
       /\ rng' = [rng EXCEPT ![d] = @ + 1]
       /\ UNCHANGED <<local, app, relayMembership, job, goroutines>>

\* The founder pushes with this release and with releases that seal
\* otherwise; device 2 pulls.
NextLegacy ==
    \/ /\ RelayHasRoom(db[Founder].vault_id)
       /\ \E entry \in Entries, op \in Ops :
             HandleSyncPushEntry(Founder, entry, op, TRUE)
    \/ /\ RelayHasRoom(db[Founder].vault_id)
       /\ \E entry \in Entries, op \in Ops :
             \E sealing \in Sealings \ {"v2"} :
                PushSealed(Founder, entry, op, sealing)
    \/ SyncEntriesCall(Joiner, TRUE)

SpecLegacy == Init /\ [][NextLegacy]_vars

\* An op that a payload can carry and this release does not know.
OtherOps == {"rename"}

\* The founder pushes with this release and with a release that writes
\* another op, sealed and signed as this release does; device 2 pulls.
NextOtherOp ==
    \/ /\ RelayHasRoom(db[Founder].vault_id)
       /\ \E entry \in Entries, op \in Ops :
             HandleSyncPushEntry(Founder, entry, op, TRUE)
    \/ /\ RelayHasRoom(db[Founder].vault_id)
       /\ \E entry \in Entries, op \in OtherOps :
             PushSealed(Founder, entry, op, "v2")
    \/ SyncEntriesCall(Joiner, TRUE)

SpecOtherOp == Init /\ [][NextOtherOp]_vars

\* ------------------------------------------------------ split batches

\* The founder pushes and pulls; device 2 only pulls, at any time, so
\* that it receives the log in one batch or in several.
NextSplit ==
    \/ /\ RelayHasRoom(db[Founder].vault_id)
       /\ \E entry \in Entries, op \in Ops :
             HandleSyncPushEntry(Founder, entry, op, TRUE)
    \/ \E d \in Members : SyncEntriesCall(d, TRUE)

SpecSplit == Init /\ [][NextSplit]_vars

\* ------------------------------------------------------ device identity

\* App.handleRegisterDevice: the server URL is saved, keys are made if the
\* device has none, and the bundle goes to the relay; registered is the
\* relay's answer, which changes nothing that is stored.
HandleRegisterDevice(d, registered) ==
    LET s == initDeviceKeysIfNeeded(SetServerURL(db[d]), rng[d])
    IN /\ ~app[d].locked
       /\ job[d].phase = "idle"
       /\ db' = [db EXCEPT ![d] = s]
       /\ rng' = [rng EXCEPT ![d] =
                    IF s.device_keys = db[d].device_keys THEN @ ELSE @ + 1]
       /\ app' = [app EXCEPT ![d].engine = @ \/ registered]
       /\ UNCHANGED <<local, relayEvents, relayMembership, job, goroutines>>

\* Device 3 has not configured sync yet.
InitIdentity ==
    /\ db = [d \in Devices |->
               IF d = Founder THEN Founding.founder
               ELSE IF d = Joiner THEN Founding.joiner ELSE FreshState]
    /\ local = [d \in Devices |-> EmptyMap]
    /\ app = [d \in Devices |->
                IF d = Third THEN [locked |-> FALSE, engine |-> FALSE]
                ELSE Unlocked]
    /\ relayEvents = EmptyMap
    /\ relayLedger = Put(EmptyMap, Founding.vault, Founding.ledger)
    /\ relayInvites = {Founding.invite}
    /\ relayClaims = <<Founding.claim>>
    /\ rng = [d \in Devices |-> InitialDraws(d)]
    /\ job = [d \in Devices |-> Idle]
    /\ push = [t \in Goroutines |-> Idle]
    /\ mu = [e \in Engines |-> Free]

\* Device 3 registers, creates vaults, is invited by the founder, joins,
\* leaves, and locks and unlocks its vault, in any order.
NextIdentity ==
    \/ /\ rng[Third] < MaxDraws
       /\ \E registered \in BOOLEAN : HandleRegisterDevice(Third, registered)
    \/ /\ rng[Third] + 2 <= MaxDraws
       /\ \E answer \in {NoError, TransportError} :
             /\ answer = NoError => Cardinality(DOMAIN relayLedger) < MaxVaults
             /\ HandleSetupSyncCreate(Third, answer)
    \/ /\ InvitesBy(Founder, Third) = {}
       /\ HandleInviteDevice(Founder, Third, TRUE)
    \/ \E invite \in relayInvites :
          \E claimed, got \in BOOLEAN :
             HandleAcceptInvite(Third, invite, claimed, got)
    \/ HandleLeaveVault(Third)
    \/ \E ok \in BOOLEAN : LeaveVaultStep(Third, ok)
    \/ HandleLeaveVaultResult(Third)
    \/ CtrlL(Third)
    \/ UnlockRequest(Third)

SpecIdentity == InitIdentity /\ [][NextIdentity]_vars

\* ------------------------------------------------------------ LAN share

\* Server.handleShare and App.handleAcceptShare.  The endpoint answers 503
\* while the store is locked; otherwise the opened entry waits on the
\* share channel until the user accepts it.  Accepting makes a new entry
\* of it (models.NewEntry: an id the vault screen does not hold) and
\* batches two commands: SaveEntriesMsg with the list grown by the entry,
\* and SyncPushEntryMsg{entry, "upsert"}, which App.Update hands to
\* handleSyncPushEntry; that one returns at once without an Engine.
HandleAcceptShare(d, entry, posted) ==
    LET r == PushEntry(db[d], d, entry, "upsert", rng[d], posted)
    IN /\ ~app[d].locked
       /\ job[d].phase = "idle"
       /\ ~Has(local[d], entry.id)
       /\ local' = [local EXCEPT ![d] =
                      SaveEntries(app[d].locked, @, Put(@, entry.id, entry))]
       /\ IF app[d].engine
          THEN /\ db' = [db EXCEPT ![d] =
                          IF r.err THEN AddPendingEntry(r.s, "upsert", entry)
                          ELSE RemovePendingEntry(r.s, entry.id)]
               /\ relayEvents' = RelayAppend(r.sent)
               /\ rng' = [rng EXCEPT ![d] = r.n]
          ELSE UNCHANGED <<db, relayEvents, rng>>
       /\ UNCHANGED <<app, relayMembership, job, goroutines>>

\* The members and device 3, which has no relay configured, accept
\* shares from paired friends on the LAN and lock and unlock.
NextShare ==
    \E d \in Devices :
        \/ \E entry \in Entries :
              \E posted \in PostAnswers(d, MaxFailures) :
                 HandleAcceptShare(d, entry, posted)
        \/ CtrlL(d)
        \/ UnlockRequest(d)

SpecShare == InitIdentity /\ [][NextShare]_vars

\* -------------------------------------------------- admission, healthy

\* What a healthy relay answers to the member_add POSTs of one
\* AcceptPendingInviteClaims call of d: it stores the event of an unused
\* invite and refuses the event of a used one as already used.
HealthyAnswers(d) ==
    LET claims == RelayClaimsFor(d)
    IN {a \in [1..Len(claims) -> AlreadyUsedAnswers \cup {NoError}] :
          \A i \in 1..Len(claims) :
             a[i] = NoError <=>
                ~RelayInviteUsed(claims[i].vault_id, claims[i].invite_id)}

\* The claims on the owner's invites that no member_add names yet.
OpenClaims(d) ==
    {i \in 1..Len(RelayClaimsFor(d)) :
        /\ RelayClaimsFor(d)[i].vault_id = db[d].vault_id
        /\ ~RelayInviteUsed(db[d].vault_id, RelayClaimsFor(d)[i].invite_id)}

\* The owner's Sync Now against a healthy relay, from the key press to the
\* handling of the message the command returns.
OwnerSyncNow ==
    \/ /\ OpenClaims(Founder) # {}
       /\ HandleSyncNow(Founder)
    \/ /\ job[Founder].phase = "syncnow"
       /\ job[Founder].pc = "accept"
       /\ \E answers \in HealthyAnswers(Founder) :
             SyncNowAccept(Founder, TRUE, answers)
    \/ SyncNowRefresh(Founder, TRUE)
    \/ SyncNowSeed(Founder, [i \in 1..Cardinality(EntryIDs) |-> TRUE])
    \/ SyncNowFlush(Founder, [i \in 1..Cardinality(EntryIDs) |-> TRUE])
    \/ SyncNowMerge(Founder, TRUE)
    \/ HandleSyncNowResult(Founder)

\* Scenario 2: the founder creates the vault and invites devices 2 and 3,
\* each joins when it likes, with a claim or a member fetch that may fail,
\* and the founder runs Sync Now while a claim is open.
NextAdmit ==
    \/ /\ db[Founder].vault_id = NoVault
       /\ HandleSetupSyncCreate(Founder, NoError)
    \/ \E target \in Devices \ {Founder} :
          /\ db[Founder].vault_id # NoVault
          /\ job[Founder].phase = "idle"
          /\ InvitesBy(Founder, target) = {}
          /\ HandleInviteDevice(Founder, target, TRUE)
    \/ \E d \in Devices \ {Founder}, invite \in relayInvites :
          \E claimed, got \in BOOLEAN :
             HandleAcceptInvite(d, invite, claimed, got)
    \/ OwnerSyncNow

SpecAdmit == InitMember /\ [][NextAdmit]_vars

\* The owner does run Sync Now while a claim is open, and a command that
\* has started runs to its end: its goroutine is never held back.
SpecAdmitFair == SpecAdmit /\ WF_vars(OwnerSyncNow)

\* ---------------------------------------------------------- properties

\* The events of device d in the relay's log of vault v, in log order.
AcceptedFrom(v, d) == SelectSeq(RelayLog(v), LAMBDA ev : ev.device_id = d)

Chained(es) ==
    \A i \in 1..Len(es) :
        /\ es[i].counter = i
        /\ es[i].prev_hash = IF i = 1 THEN ZeroHash
                             ELSE Sha256(EventSignBytes(es[i - 1]))

Dictates(s, ev) ==
    LET dec == decryptEventPayload(s, ev.ciphertext, ev.nonce, ev.key_epoch)
    IN IF dec.op = "upsert" THEN <<dec.entry>> ELSE << >>

EntryIDOf(s, ev) ==
    decryptEventPayload(s, ev.ciphertext, ev.nonce, ev.key_epoch).entry.id

\* The greater of two events in (lamport, device_id) order.
Greater(a, b) ==
    IF a.lamport > b.lamport
       \/ (a.lamport = b.lamport /\ a.device_id > b.device_id)
    THEN a ELSE b

\* What SyncEntries leaves for entry id when device d, with no local
\* entries, is delivered the events first, second in this order.
Delivered(d, first, second, id) ==
    LET r == SyncEntries(db[d], EmptyMap,
                         <<[seq |-> 1, ev |-> first],
                           [seq |-> 2, ev |-> second]>>, TRUE).result
    IN IF Has(r, id) THEN <<r[id]>> ELSE << >>

\* C2: for two verified events a and b on one entry id that differ in
\* (lamport, device_id), SyncEntries leaves the same state for the id
\* whether a is delivered before b or b before a, and that state is the
\* one the greater event dictates.
C2_Determinism ==
    \A d \in Members :
      LET log == RelayLog(db[d].vault_id)
      IN \A i, j \in 1..Len(log) :
           LET a == log[i]
               b == log[j]
           IN (/\ i # j
               /\ EventAccepted(db[d], a) /\ EventAccepted(db[d], b)
               /\ EntryIDOf(db[d], a) = EntryIDOf(db[d], b)
               /\ <<a.lamport, a.device_id>> # <<b.lamport, b.device_id>>)
              => /\ Delivered(d, a, b, EntryIDOf(db[d], a))
                      = Delivered(d, b, a, EntryIDOf(db[d], a))
                 /\ Delivered(d, a, b, EntryIDOf(db[d], a))
                      = Dictates(db[d], Greater(a, b))

\* The founder's accepted events are one upsert for each of its entries.
PushedEachOnce ==
    LET es == AcceptedFrom(Founding.vault, Founder)
    IN /\ Len(es) = Cardinality(DOMAIN local[Founder])
       /\ \A id \in DOMAIN local[Founder] :
             \E i \in 1..Len(es) :
                 es[i].ciphertext.pt =
                    MarshalPayload("upsert", local[Founder][id])

\* C3: once the founder has pushed an upsert for each entry of its list,
\* a SyncEntries of the joiner, which holds the vault key, has the founder
\* among its verified members, no local entry and cursor 0, returns that
\* list.
C3_RoundTrip ==
    (/\ PushedEachOnce
     /\ local[Joiner] = EmptyMap
     /\ db[Joiner].sync_cursor = 0)
    => SyncEntries(db[Joiner], local[Joiner],
                   RelayPull(db[Joiner].vault_id, db[Joiner].sync_cursor),
                   TRUE).result = local[Founder]

\* The joiner has pulled a list of two entries.
C3_Witness ==
    /\ PushedEachOnce
    /\ Cardinality(DOMAIN local[Founder]) = 2
    /\ db[Joiner].sync_cursor = 2
    /\ local[Joiner] = local[Founder]

\* The events the relay stored for mutation item of device d after the
\* first since log entries.
EventsFor(d, item, since) ==
    LET log == RelayLog(db[d].vault_id)
    IN {i \in (since + 1)..Len(log) :
          /\ log[i].device_id = d
          /\ log[i].ciphertext.pt = MarshalPayload(item.op, item.entry)}

\* A push that failed in transport leaves its mutation in the queue.
C4_Enqueued ==
    \A entry \in Entries, op \in Ops :
        HandleSyncPushEntry(Founder, entry, op, FALSE)
        => /\ Has(db'[Founder].pending, entry.id)
           /\ db'[Founder].pending[entry.id] = [op |-> op, entry |-> entry]

\* A flush whose POSTs were all stored has, when its loop is through,
\* emptied the queue of every item it read and left exactly one event for
\* each in the relay's log.
C4_Flushed ==
    LET fl == job[Founder]
    IN (fl.phase = "loop" /\ fl.i > Len(fl.items) /\ fl.healthy)
       => \A k \in 1..Len(fl.items) :
             /\ ~Has(db[Founder].pending, fl.items[k].entry.id)
             /\ Cardinality(EventsFor(Founder, fl.items[k], fl.start)) = 1

\* C4: a mutation whose push failed in transport is in pending_entries
\* afterwards, and a later FlushPendingEntries under a healthy transport
\* pushes exactly one event for it and removes it from the queue.
C4_PendingConvergence == [][C4_Enqueued]_vars /\ []C4_Flushed

\* A flush of a queue of two has gone through with every POST stored.
C4_Witness ==
    /\ job[Founder].phase = "loop"
    /\ Len(job[Founder].items) = 2
    /\ job[Founder].i > 2
    /\ job[Founder].healthy

\* The member_add events of a ledger that name an invite.
AdmissionsOf(ledger, inviteID) ==
    {j \in 1..Len(ledger) : ledger[j].invite_id = inviteID}

\* C5: when the owner runs AcceptPendingInviteClaims over claims that were
\* all admitted before, and the relay answers each repeated member_add with
\* invite_already_used or with 409 and a message containing "invite has
\* already been used", the call returns no error, the ledger has gained no
\* second member_add for a claimant and the owner's membership head is the
\* one it had before the call.
C5_IdempotentAccept ==
    LET jb == job[Founder]
    IN (/\ jb.phase = "claims"
        /\ jb.i > Len(jb.items)
        /\ jb.replay
        /\ jb.answers \subseteq AlreadyUsedAnswers)
       => /\ ~jb.err
          /\ RelayLedgerOf(jb.vault) = jb.ledger
          /\ \A k \in 1..Len(jb.items) :
                Cardinality(AdmissionsOf(RelayLedgerOf(jb.vault),
                                         jb.items[k].invite_id)) = 1
          /\ GetMembershipHead(db[Founder]) = jb.head

\* A replay over two admitted claims is through, one of them answered with
\* the code and one with a 409 whose message names the reason.
C5_Witness ==
    LET jb == job[Founder]
    IN /\ jb.phase = "claims"
       /\ jb.i > Len(jb.items)
       /\ Len(jb.items) = 2
       /\ jb.replay
       /\ jb.answers \subseteq AlreadyUsedAnswers
       /\ \E a \in jb.answers : a.code = "invite_already_used"
       /\ \E a \in jb.answers : a.code # "invite_already_used"

\* C6: the member_add events the relay accepted from the owner carry
\* member_seq 1, 2, 3, ... in steps of one; the bootstrap event has the
\* all-zero prev_hash and every later event's prev_hash is the digest of
\* the signed bytes of the event before it.
C6_MembershipChain ==
    \A v \in DOMAIN relayLedger :
       \A i \in 1..Len(relayLedger[v]) :
          /\ relayLedger[v][i].member_seq = i
          /\ relayLedger[v][i].prev_hash =
                IF i = 1 THEN ZeroHash
                ELSE Sha256(MemberAddSignBytes(relayLedger[v][i - 1]))

\* The owner has admitted two devices to a vault and created a second one.
C6_Witness ==
    /\ \E v \in DOMAIN relayLedger : Len(relayLedger[v]) = 3
    /\ Cardinality(DOMAIN relayLedger) = 2

\* C7: between Store.Lock and the next successful Unlock no operation
\* changes the persistent store: neither the vault blob nor the sync
\* buckets, whichever SyncState or Engine the operation goes through.
C7_LockBoundary ==
    [][\A d \in Devices :
          (app[d].locked /\ app'[d].locked)
          => (db'[d] = db[d] /\ local'[d] = local[d])]_vars

\* C8: of the events a device pushed, through whichever Engine and
\* however the PushEntry calls overlapped, no two carry the same counter
\* and no two carry the same lamport.
C8_SerialisedAllocation ==
    \A d \in Devices : \A a, b \in StoredBy(d) :
        a # b => (a.counter # b.counter /\ a.lamport # b.lamport)

\* The event a step added to the log of vault v, as a sequence of at most
\* one event.
Pushed(v) ==
    LET before == RelayLog(v)
        after == IF Has(relayEvents', v) THEN relayEvents'[v] ELSE << >>
    IN IF Len(after) = Len(before) + 1 THEN <<after[Len(after)]>> ELSE << >>

MaxLamportOf(batch) ==
    CHOOSE m \in {batch[i].ev.lamport : i \in 1..Len(batch)} :
        \A i \in 1..Len(batch) : batch[i].ev.lamport <= m

\* C10: a SyncEntries call whose pull brought at least one event leaves
\* the stored lamport at max(lamport before, greatest pulled lamport) + 1,
\* also when no pulled lamport exceeds the local clock.
C10_LamportOnPull ==
    \A d \in Members :
        LET batch == RelayPull(db[d].vault_id, db[d].sync_cursor)
            r == SyncEntries(db[d], local[d], batch, TRUE)
        IN batch # << >>
           => r.s.lamport = Max(db[d].lamport, MaxLamportOf(batch)) + 1

\* C11: no step lowers the sync cursor a device stores, whether its pull
\* failed, skipped events of the batch or took them all.
C11_MonotonicCursor ==
    [][\A d \in Devices : db'[d].sync_cursor >= db[d].sync_cursor]_vars

\* Device 2 moved its cursor over a batch in which it skipped an event of
\* device 3, which it does not hold as a verified member.
C11_Witness ==
    LET log == RelayLog(db[Founder].vault_id)
    IN /\ Len(log) = 2
       /\ log[1].device_id = Third
       /\ log[2].device_id = Founder
       /\ ~Has(db[Joiner].members, Third)
       /\ db[Joiner].sync_cursor = 2

\* C12: SyncEntries leaves the cursor at the greatest seq of the pulled
\* batch (or at the old cursor for an empty batch), the events it skipped
\* counted like the others.
C12_CursorCoversBatch ==
    \A d \in Devices :
        LET batch == RelayPull(db[d].vault_id, db[d].sync_cursor)
            r == SyncEntries(db[d], local[d], batch, TRUE)
        IN db[d].vault_id # NoVault
           => r.s.sync_cursor = db[d].sync_cursor + Len(batch)

\* C13: when a PushEntry call ends with a failed POST, whichever command
\* made the call, the pair (op, entry) it was to push is in
\* pending_entries once the command has dealt with the result.
C13_PushFailureEnqueues ==
    [][\A t \in Goroutines :
          (/\ push[t].phase = "clock"
           /\ push'[t].phase # "clock"
           /\ relayEvents' = relayEvents)
          => LET item == push[t].items[push[t].i]
             IN /\ Has(db'[Founder].pending, item.entry.id)
                /\ db'[Founder].pending[item.entry.id] = item]_vars

\* The calls a Sync Now command makes, in the order the cycle has them.
SyncNowOrder == <<"accept", "refresh", "seed", "flush", "merge">>

\* C14: the calls a Sync Now command has made so far are an initial part
\* of accept claims, refresh membership, seed, flush, pull-and-merge: in
\* particular the merge comes after the refresh and the flush.
C14_StepOrder ==
    \A d \in Devices :
        job[d].phase \in {"syncnow", "done"}
        => /\ Len(job[d].steps) <= Len(SyncNowOrder)
           /\ job[d].steps = SubSeq(SyncNowOrder, 1, Len(job[d].steps))

\* A cycle that went through all five calls and merged a pulled event.
C14_Witness ==
    /\ job[Founder].phase = "done"
    /\ job[Founder].steps = SyncNowOrder
    /\ job[Founder].msg = "SyncNowCompleteMsg"
    /\ db[Founder].sync_cursor > 0

\* C15: a Sync Now cycle ends with SyncNowFailMsg only when its
\* pull-and-merge was called and failed; failures of the calls before it
\* do not end the cycle.
C15_NonFatalSubSteps ==
    \A d \in Devices :
        (job[d].phase = "done" /\ job[d].msg = "SyncNowFailMsg")
        => (job[d].steps = SyncNowOrder /\ "merge" \in job[d].failed)

\* C16: the warning of a cycle that ended with SyncNowCompleteMsg names
\* every call of the cycle that failed.
C16_CompositeWarning ==
    \A d \in Devices :
        (job[d].phase = "done" /\ job[d].msg = "SyncNowCompleteMsg")
        => \A step \in job[d].failed : step \in Range(job[d].warn)

\* A seeding pass of device d: the seed call of a Sync Now, or an Invite
\* Device command.
SeedingPass(d) ==
    \/ job[d].phase = "syncnow" /\ job[d].pc = "seed" /\ job'[d].pc # "seed"
    \/ job[d].phase = "idle" /\ job'[d].phase = "invited"

PassEntries(d) == IF job[d].phase = "syncnow" THEN job[d].entries ELSE local[d]

\* The events the step adds to the log of d's vault.
NewEvents(d) ==
    LET v == db[d].vault_id
        old == RelayLog(v)
        new == IF Has(relayEvents', v) THEN relayEvents'[v] ELSE << >>
    IN SubSeq(new, Len(old) + 1, Len(new))

\* Every entry of the pass was pushed as an upsert: its event is in the
\* log, or the failed push left it in the pending queue.
PushedAll(d) ==
    LET news == NewEvents(d)
        list == EntryList(PassEntries(d))
    IN /\ \A i \in 1..Len(news) : news[i].device_id = d
       /\ \A i \in 1..Len(list) :
             \/ \E j \in 1..Len(news) :
                   LET pl == decryptEventPayload(db[d], news[j].ciphertext,
                                                 news[j].nonce,
                                                 news[j].key_epoch)
                   IN pl.ok /\ pl.op = "upsert" /\ pl.entry = list[i]
             \/ /\ Has(db'[d].pending, list[i].id)
                /\ db'[d].pending[list[i].id]
                      = [op |-> "upsert", entry |-> list[i]]

LeaveVaultReturns(d) ==
    /\ job[d].phase = "leave"
    /\ job'[d].phase = "left"
    /\ job'[d].msg = "LeaveVaultCompleteMsg"

\* C19: when Leave Vault returns success, vault_id, vault_key, key_epoch,
\* owner_device_id, member_seq, member_head_hash, sync_cursor and lamport
\* are unset, verified_members, event_heads and pending_entries are empty,
\* so the device's own head reads counter 0, and no transaction of the
\* command changes the device keys or the server URL.
C19_LeaveVaultEffect ==
    [][\A d \in Devices :
          /\ LeaveVaultReturns(d) =>
                /\ db'[d] = [FreshState EXCEPT
                                !.has_keys = db'[d].has_keys,
                                !.device_keys = db'[d].device_keys,
                                !.server_url = db'[d].server_url,
                                !.scheme = db'[d].scheme]
                /\ GetEventHead(db'[d], d).counter = 0
          /\ job[d].phase = "leave" /\ job'[d] # job[d] =>
                /\ db'[d].has_keys = db[d].has_keys
                /\ db'[d].device_keys = db[d].device_keys
                /\ db'[d].server_url = db[d].server_url]_vars

\* Device 2 has left the vault it had pushed an event to: the command has
\* returned success, the log keeps the event, and the device keeps its
\* keys and an entry.
C19_Witness ==
    /\ job[Joiner].phase = "left"
    /\ job[Joiner].msg = "LeaveVaultCompleteMsg"
    /\ Len(RelayLog(Founding.vault)) = 1
    /\ db[Joiner].vault_id = NoVault
    /\ db[Joiner].lamport = 0
    /\ db[Joiner].has_keys
    /\ local[Joiner] # EmptyMap

\* Device d's JoinVault claims an invite in this step.
Joins(d) ==
    /\ Len(relayClaims') = Len(relayClaims) + 1
    /\ relayClaims'[Len(relayClaims')].device_id = d

\* C18: a step in which a device joins a vault (Accept Invite, JoinVault)
\* adds no event to any log of the relay and leaves the device's event
\* heads, its lamport clock and its pending entries as they were, also
\* when the device joins again after Leave Vault and holds local entries.
C18_JoinPushesNothing ==
    [][\A d \in Devices :
          Joins(d) =>
             /\ relayEvents' = relayEvents
             /\ db'[d].heads = db[d].heads
             /\ db'[d].lamport = db[d].lamport
             /\ db'[d].pending = db[d].pending]_vars

\* Device 2 has left the vault it had pushed an event to and has joined it
\* again with the founder's second invite while holding two entries, one of
\* them waiting in its pending queue: the log holds the one event still.
C18_Witness ==
    /\ Len(relayClaims) = 2
    /\ relayClaims[2].device_id = Joiner
    /\ db[Joiner].vault_id = Founding.vault
    /\ Cardinality(DOMAIN local[Joiner]) = 2
    /\ Cardinality(DOMAIN db[Joiner].pending) = 1
    /\ GetEventHead(db[Joiner], Joiner).counter = 0
    /\ db[Joiner].lamport = 0
    /\ Len(RelayLog(Founding.vault)) = 1

\* The accept call of d's Sync Now posts a member_add in this step: each
\* POST takes the event's id from the random source.
SubmitsMemberAdd(d) ==
    /\ job[d].phase = "syncnow"
    /\ job[d].pc = "accept"
    /\ job'[d].pc # "accept"
    /\ rng'[d] > rng[d]

\* Device d entered vault v through JoinVault: the relay holds its claim.
EnteredByJoin(d, v) ==
    \E i \in 1..Len(relayClaims) :
       relayClaims[i].device_id = d /\ relayClaims[i].vault_id = v

\* C20: a member_add is submitted to the relay only by a device whose
\* stored owner_device_id is its own device id, and a device that entered
\* the vault through JoinVault never submits one.
C20_OwnerOnlyAdmission ==
    [][\A d \in Devices :
          SubmitsMemberAdd(d) =>
             /\ db[d].owner = d
             /\ ~EnteredByJoin(d, db[d].vault_id)]_vars

\* The ledger of vault v after the step.
LedgerAfter(v) == IF Has(relayLedger', v) THEN relayLedger'[v] ELSE << >>

\* Device d's AcceptInviteClaim returns in this step.
AcceptReturns(d) ==
    /\ job[d].phase = "claims"
    /\ job'[d].phase = "claims"
    /\ job'[d].i # job[d].i

\* C21: a call of AcceptInviteClaim that the relay did not answer with
\* acceptance of the member_add (a rejection, a transport failure, or a
\* failure of an earlier step) leaves membership_head and verified_members
\* exactly as they were; member_seq and member_head_hash move only with an
\* event the relay took into the ledger, to that event's seq and hash.
C21_HeadOnAcceptance ==
    [][\A d \in Devices :
          AcceptReturns(d) =>
             LET v == db[d].vault_id
                 after == LedgerAfter(v)
             IN IF Len(after) = Len(RelayLedgerOf(v)) + 1
                THEN /\ db'[d].member_seq = after[Len(after)].member_seq
                     /\ db'[d].member_seq = db[d].member_seq + 1
                     /\ db'[d].member_head_hash
                           = Sha256(MemberAddSignBytes(after[Len(after)]))
                ELSE /\ after = RelayLedgerOf(v)
                     /\ GetMembershipHead(db'[d]) = GetMembershipHead(db[d])
                     /\ db'[d].members = db[d].members]_vars

\* The relay has rejected the founder's member_add for a claim that was
\* not admitted before: the loop has stopped with the error, and the
\* founder's head is still the bootstrap event, the ledger's only one.
C21_Witness ==
    /\ job[Founder].phase = "claims"
    /\ job[Founder].err
    /\ \E a \in job[Founder].answers : a.kind = "api"
    /\ ~job[Founder].replay
    /\ db[Founder].member_seq = 1
    /\ Len(RelayLedgerOf(db[Founder].vault_id)) = 1
    /\ DOMAIN db[Founder].members = {Founder}

\* Device d's CreateVault returns in this step: it alone takes two ids.
CreateReturns(d) == rng'[d] = rng[d] + 2

\* C22: when the relay accepts the bootstrap member_add of CreateVault, the
\* state afterwards has the new vault_id and a vault_key, key_epoch 1,
\* owner_device_id = self, membership head (1, hash of the bootstrap
\* event's signed bytes) and self among the verified members with
\* key_epoch 1; when the relay does not accept it, nothing is written.
C22_CreateVaultOutcome ==
    [][\A d \in Devices :
          CreateReturns(d) =>
             LET new == (DOMAIN relayLedger') \ (DOMAIN relayLedger)
             IN IF new # {}
                THEN \E v \in new :
                        /\ relayLedger'[v][1].actor = d
                        /\ db'[d].vault_id = v
                        /\ db'[d].vault_key \notin {NoKey, db[d].vault_key}
                        /\ db'[d].key_epoch = 1
                        /\ db'[d].owner = d
                        /\ db'[d].member_seq = 1
                        /\ db'[d].member_head_hash
                              = Sha256(MemberAddSignBytes(relayLedger'[v][1]))
                        /\ Has(db'[d].members, d)
                        /\ db'[d].members[d].key_epoch = 1
                ELSE db'[d] = db[d]]_vars

\* The founder has created a second vault after it admitted device 2 to
\* its first: its head is the bootstrap event of the second vault.
C22_Witness ==
    /\ Cardinality(DOMAIN relayLedger) = 2
    /\ \E v \in DOMAIN relayLedger : Len(relayLedger[v]) = 2
    /\ Len(RelayLedgerOf(db[Founder].vault_id)) = 1
    /\ db[Founder].owner = Founder
    /\ db[Founder].member_seq = 1

\* Device d's SyncEntries merges a pulled batch in this step: its entry
\* list or its entry schemes change and nothing is pushed.
Merges(d) ==
    /\ relayEvents' = relayEvents
    /\ local'[d] # local[d] \/ db'[d].scheme # db[d].scheme

\* The batch d pulls, without the events of senders that are not among
\* d's verified members.
VerifiedBatch(d) ==
    SelectSeq(RelayPull(db[d].vault_id, db[d].sync_cursor),
              LAMBDA p : Has(db[d].members, p.ev.device_id))

\* C23: an event whose sender is not among the verified members at the
\* time of the pull installs, replaces and removes no entry and changes no
\* entry scheme, and the events after it are merged: the list and the
\* schemes after a merge are those of merging the batch without the
\* events of unverified senders.
C23_UnverifiedIgnored ==
    [][\A d \in Devices :
          Merges(d) =>
             LET q == SyncEntries(db[d], local[d], VerifiedBatch(d), TRUE)
             IN /\ local'[d] = SaveEntries(app[d].locked, local[d], q.result)
                /\ db'[d].scheme = q.s.scheme]_vars

\* Device 2, which has not refreshed its members since device 3 was
\* admitted, has pulled an upsert of device 3 followed by an upsert of the
\* founder for another entry: it holds the founder's entry only.
C23_Witness ==
    LET log == RelayLog(db[Founder].vault_id)
    IN /\ Len(log) = 2
       /\ log[1].device_id = Third
       /\ log[2].device_id = Founder
       /\ ~Has(db[Joiner].members, Third)
       /\ db[Joiner].sync_cursor = 2
       /\ Cardinality(DOMAIN local[Joiner]) = 1
       /\ \A id \in DOMAIN local[Joiner] :
             /\ decryptEventPayload(db[Joiner], log[2].ciphertext,
                                    log[2].nonce, log[2].key_epoch).entry.id
                   = id
             /\ decryptEventPayload(db[Joiner], log[1].ciphertext,
                                    log[1].nonce, log[1].key_epoch).entry.id
                   # id
             /\ decryptEventPayload(db[Joiner], log[1].ciphertext,
                                    log[1].nonce, log[1].key_epoch).op
                   = "upsert"

\* Every signed field of ev has the value its sender signed.
Intact(ev) ==
    LET over == ev.signature.over
    IN /\ Len(over) = 10
       /\ over[1] = "EVENT"
       /\ ev.event_id = over[2]
       /\ ev.vault_id = over[3]
       /\ ev.device_id = over[4]
       /\ ev.counter = over[5]
       /\ ev.lamport = over[6]
       /\ ev.key_epoch = over[7]
       /\ ev.prev_hash = over[8]
       /\ ev.nonce = over[9]
       /\ ev.ciphertext = over[10]

\* The batch d pulls, without the events that are not intact under the
\* verified signing key of their sender.
IntactBatch(d) ==
    SelectSeq(RelayPull(db[d].vault_id, db[d].sync_cursor),
              LAMBDA p : /\ Has(db[d].members, p.ev.device_id)
                         /\ p.ev.signature.by
                               = db[d].members[p.ev.device_id].pubkey_sign
                         /\ Intact(p.ev))

\* C24: a pulled event in which event_id, vault_id, device_id, counter,
\* lamport, key_epoch, prev_hash, nonce or ciphertext differs from the
\* value its sender signed has no effect on the merged entries: the list
\* and the schemes after a merge are those of merging only the events
\* whose signed fields are intact under the sender's verified pubkey_sign.
C24_SignatureRejection ==
    [][\A d \in Devices :
          Merges(d) =>
             LET q == SyncEntries(db[d], local[d], IntactBatch(d), TRUE)
             IN /\ local'[d] = SaveEntries(app[d].locked, local[d], q.result)
                /\ db'[d].scheme = q.s.scheme]_vars

\* Device 2 has pulled two upserts of the founder for different entries,
\* the first with its lamport raised by the relay: it holds the entry of
\* the second only.
C24_Witness ==
    LET log == RelayLog(db[Founder].vault_id)
    IN /\ Len(log) = 2
       /\ log[1].lamport # log[1].signature.over[6]
       /\ Intact(log[2])
       /\ db[Joiner].sync_cursor = 2
       /\ log[1].ciphertext.pt[2] = "upsert"
       /\ log[2].ciphertext.pt[2] = "upsert"
       /\ log[1].ciphertext.pt[3].id # log[2].ciphertext.pt[3].id
       /\ DOMAIN local[Joiner] = {log[2].ciphertext.pt[3].id}

\* The scheme under which the ciphertext of ev opens with the vault key of
\* state s and the event's epoch, "none" if under neither.
SealedAs(s, ev) ==
    LET ct == ev.ciphertext
    IN IF ct = Seal("v2", deriveEventKey(s.vault_key, ev.key_epoch),
                    ev.nonce, ct.pt)
       THEN "v2"
       ELSE IF ct = Seal("legacy",
                         deriveLegacyEventKey(s.vault_key, ev.key_epoch),
                         ev.nonce, ct.pt)
       THEN "legacy"
       ELSE "none"

\* decryptEventPayload opens what either scheme sealed and names the scheme
\* that opened it.
C25_Decrypts ==
    \A d \in Members :
       LET log == RelayLog(db[d].vault_id)
       IN \A i \in 1..Len(log) :
             LET dec == decryptEventPayload(db[d], log[i].ciphertext,
                                            log[i].nonce, log[i].key_epoch)
                 as == SealedAs(db[d], log[i])
             IN IF as = "none" THEN ~dec.ok
                ELSE /\ dec.ok
                     /\ dec.scheme = as
                     /\ MarshalPayload(dec.op, dec.entry)
                           = log[i].ciphertext.pt

\* An entry that a merge installs comes from an upsert of the batch that
\* opens under one of the two schemes, and entry_scheme of its id names
\* that scheme.
C25_Marks ==
    \A d \in Devices :
       Merges(d) =>
          \A id \in DOMAIN local'[d] :
             (~Has(local[d], id) \/ local'[d][id] # local[d][id]) =>
                LET batch == RelayPull(db[d].vault_id, db[d].sync_cursor)
                IN \E i \in 1..Len(batch) :
                      /\ SealedAs(db[d], batch[i].ev) # "none"
                      /\ batch[i].ev.ciphertext.pt
                            = MarshalPayload("upsert", local'[d][id])
                      /\ Has(db'[d].scheme, id)
                      /\ db'[d].scheme[id] = SealedAs(db[d], batch[i].ev)

\* C25: decryptEventPayload opens a pulled event's ciphertext under the v2
\* scheme or else under the legacy scheme; a legacy upsert is decrypted
\* and merged and marks its entry 'legacy' in entry_scheme, a v2 upsert
\* marks 'v2', and an event that opens under neither is skipped.
C25_LegacyFallback == []C25_Decrypts /\ [][C25_Marks]_vars

\* Device 2 has pulled a legacy upsert and a v2 upsert of the founder for
\* two entries: it holds both, marked 'legacy' and 'v2'.
C25_Witness ==
    LET log == RelayLog(db[Founder].vault_id)
    IN /\ Len(log) = 2
       /\ db[Joiner].sync_cursor = 2
       /\ Cardinality(DOMAIN local[Joiner]) = 2
       /\ {SealedAs(db[Joiner], log[1]), SealedAs(db[Joiner], log[2])}
             = {"legacy", "v2"}
       /\ \A i \in 1..2 :
             LET pl == UnmarshalPayload(log[i].ciphertext.pt)
             IN /\ pl.op = "upsert"
                /\ Has(db[Joiner].scheme, pl.entry.id)
                /\ db[Joiner].scheme[pl.entry.id]
                      = SealedAs(db[Joiner], log[i])

\* C26: once device keys are stored, the device id and both key pairs keep
\* their value in every later step: Setup Sync, Register Device, Accept
\* Invite, Leave Vault, a re-create, a re-join, lock and unlock.
C26_ImmutableIdentity ==
    [][\A d \in Devices :
          db[d].has_keys =>
             /\ db'[d].has_keys
             /\ db'[d].device_keys = db[d].device_keys]_vars

\* Device 3, whose keys were made by its first command, has created a
\* vault of its own and then joined the founder's vault, and has locked
\* its vault since: it holds the keys of its first command.
C26_Witness ==
    /\ db[Third].has_keys
    /\ db[Third].device_keys = GenerateDeviceKeys(InitialDraws(Third))
    /\ Cardinality(DOMAIN relayLedger) = 2
    /\ db[Third].vault_id = Founding.vault
    /\ rng[Third] > InitialDraws(Third) + 2
    /\ app[Third].locked

\* The replication state of device d: event heads, Lamport clock, cursor,
\* pending queue and membership.
ReplicationState(d) ==
    <<db[d].heads, db[d].lamport, db[d].sync_cursor, db[d].pending,
      db[d].member_seq, db[d].member_head_hash, db[d].members,
      db[d].vault_id, db[d].key_epoch>>

\* C27: accepting an entry shared over the LAN changes none of event_head,
\* lamport, sync_cursor, pending_entries or the membership state of the
\* device, and posts no Event to the relay.
C27_ShareLeavesReplication ==
    [][\A d \in Devices :
          local'[d] # local[d] =>
             /\ ReplicationState(d)' = ReplicationState(d)
             /\ relayEvents' = relayEvents]_vars

\* Device j has completed JoinVault for an invite of the founder: the
\* relay holds its claim and it stored the vault.
JoinCompleted(j) ==
    /\ db[Founder].vault_id # NoVault
    /\ db[j].vault_id = db[Founder].vault_id
    /\ \E i \in 1..Len(RelayClaimsFor(Founder)) :
          /\ RelayClaimsFor(Founder)[i].device_id = j
          /\ RelayClaimsFor(Founder)[i].vault_id = db[Founder].vault_id

\* Device j is among the founder's verified members at key epoch 1.
VerifiedByOwner(j) ==
    /\ Has(db[Founder].members, j)
    /\ db[Founder].members[j].key_epoch = 1

\* The devices the accept call of the founder's Sync Now admits.
AdmittedNow ==
    {j \in Devices : ~Has(db[Founder].members, j)
                     /\ Has(db'[Founder].members, j)}

\* The accept call of the founder's Sync Now returns.
OwnerAccepts ==
    /\ job[Founder].phase = "syncnow"
    /\ job[Founder].pc = "accept"
    /\ job'[Founder].pc # "accept"

\* C28: once a joiner has completed JoinVault for an invite of the owner,
\* the owner's next Sync Now against a healthy relay comes, its accept
\* call leaves every such joiner verified at key epoch 1, the command
\* ends with the joiner still verified, and the call advances the owner's
\* member_seq by exactly one per claim it admits: from 1 to 2 for the
\* first joiner.
C28_AdmissionLiveness ==
    /\ \A j \in Devices \ {Founder} :
          JoinCompleted(j) ~>
             (VerifiedByOwner(j) /\ job[Founder].phase = "idle")
    /\ [][OwnerAccepts =>
            /\ \A j \in Devices \ {Founder} :
                   JoinCompleted(j) => VerifiedByOwner(j)'
            /\ db'[Founder].member_seq =
                   db[Founder].member_seq + Cardinality(AdmittedNow)
            /\ Cardinality(DOMAIN db[Founder].members) = 1
                /\ AdmittedNow # {}
                /\ Cardinality(AdmittedNow) = 1
                   => /\ db[Founder].member_seq = 1
                      /\ db'[Founder].member_seq = 2]_vars

\* The founder's second Sync Now is over: the first admitted device 2
\* alone, the second found device 2's claim used and admitted device 3.
C28_Witness ==
    /\ job[Founder].phase = "idle"
    /\ VerifiedByOwner(Joiner)
    /\ VerifiedByOwner(Third)
    /\ db[Founder].member_seq = 3
    /\ rng[Founder] = 7

\* The working state of device d's merge in front of the i-th event of the
\* batch it would pull now.
MergeBefore(d, i) ==
    MergeLoop(db[d], MergeStart(db[d], local[d]),
              SubSeq(RelayPull(db[d].vault_id, db[d].sync_cursor), 1, i - 1),
              1)

\* The tracked (lamport, device_id) of entry id in working state a.
Tracked(a, id) == <<a.entryLamport[id], a.entryDeviceID[id]>>

\* C29: in the merge, an event whose entry id has a tracked record
\* replaces that record if and only if its lamport is greater, or equal
\* with a greater device_id; an event that does not win leaves the entry
\* map and the tracked (lamport, device_id) of the id as they were.
C29_WinRule ==
    \A d \in Members :
        LET batch == RelayPull(db[d].vault_id, db[d].sync_cursor)
        IN \A i \in 1..Len(batch) :
              LET ev == batch[i].ev
                  a == MergeBefore(d, i)
                  b == MergeStep(db[d], a, batch[i])
                  id == EntryIDOf(db[d], ev)
                  wins == \/ ev.lamport > a.entryLamport[id]
                          \/ /\ ev.lamport = a.entryLamport[id]
                             /\ ev.device_id > a.entryDeviceID[id]
              IN EventAccepted(db[d], ev) /\ Has(a.entryLamport, id)
                 => /\ wins <=>
                         /\ Tracked(b, id) = <<ev.lamport, ev.device_id>>
                         /\ Tracked(b, id) # Tracked(a, id)
                    /\ wins /\ Dictates(db[d], ev) # << >>
                         => /\ Has(b.entryMap, id)
                            /\ <<b.entryMap[id]>> = Dictates(db[d], ev)
                    /\ wins /\ Dictates(db[d], ev) = << >>
                         => ~Has(b.entryMap, id)
                    /\ ~wins => /\ b.entryMap = a.entryMap
                                /\ Tracked(b, id) = Tracked(a, id)

\* C30: an upsert that wins against the record of its entry id, also a
\* record a winning delete of the same batch left, is installed in the
\* entry map, and when no later event of the batch is about the id the
\* entry is in the list SyncEntries returns.
C30_WinningUpsertInstalled ==
    \A d \in Members :
        LET batch == RelayPull(db[d].vault_id, db[d].sync_cursor)
            r == SyncEntries(db[d], local[d], batch, TRUE)
        IN \A i \in 1..Len(batch) :
              LET ev == batch[i].ev
                  a == MergeBefore(d, i)
                  b == MergeStep(db[d], a, batch[i])
                  id == EntryIDOf(db[d], ev)
              IN /\ EventAccepted(db[d], ev)
                 /\ Dictates(db[d], ev) # << >>
                 /\ Wins(a, id, ev.lamport, ev.device_id)
                 => /\ Has(b.entryMap, id)
                    /\ <<b.entryMap[id]>> = Dictates(db[d], ev)
                    /\ (\A k \in (i + 1)..Len(batch) :
                           EventAccepted(db[d], batch[k].ev)
                              => EntryIDOf(db[d], batch[k].ev) # id)
                         => /\ Has(r.result, id)
                            /\ <<r.result[id]>> = Dictates(db[d], ev)

\* Device d's pull-and-merge of a batch that is not empty returns and its
\* result is applied: only SyncEntries moves the cursor forward.
PullReturns(d) ==
    /\ db[d].vault_id # NoVault
    /\ db'[d].vault_id = db[d].vault_id
    /\ db'[d].sync_cursor > db[d].sync_cursor

\* The accepted events about entry id in the batch d would pull now.
EventsAbout(d, id) ==
    LET batch == RelayPull(db[d].vault_id, db[d].sync_cursor)
    IN {batch[i].ev : i \in {k \in 1..Len(batch) :
                                /\ EventAccepted(db[d], batch[k].ev)
                                /\ EntryIDOf(db[d], batch[k].ev) = id}}

\* The ids whose winning event in that batch, the greatest in
\* (lamport, device_id), is a delete.
DeletedByWinner(d) ==
    {id \in EntryIDs :
        \E ev \in EventsAbout(d, id) :
            /\ Dictates(db[d], ev) = << >>
            /\ \A other \in EventsAbout(d, id) : Greater(other, ev) = ev}

\* C31: the list an unlocked device holds after a pull-and-merge is the
\* entry map of the merge: a local entry whose id the merge removed from
\* the map is gone, and no id whose winning event is a delete is in it.
C31_LogAuthoritative ==
    [][\A d \in Devices :
          PullReturns(d) /\ ~app[d].locked =>
             LET a == MergeBefore(d, Len(RelayPull(db[d].vault_id,
                                                   db[d].sync_cursor)) + 1)
             IN /\ local'[d] = a.entryMap
                /\ \A id \in DOMAIN local[d] :
                      ~Has(a.entryMap, id) => ~Has(local'[d], id)
                /\ \A id \in DeletedByWinner(d) : ~Has(local'[d], id)]_vars

\* The founder holds an entry it never pushed, next to the log's delete of
\* the other entry, which its merge has passed.
C31_Witness ==
    LET log == RelayLog(db[Founder].vault_id)
    IN /\ ~app[Founder].locked
       /\ Len(log) = 2
       /\ db[Founder].sync_cursor = 2
       /\ Dictates(db[Founder], log[1]) # << >>
       /\ Dictates(db[Founder], log[2]) = << >>
       /\ EntryIDOf(db[Founder], log[1]) = 1
       /\ EntryIDOf(db[Founder], log[2]) = 1
       /\ DOMAIN local[Founder] = {2}

\* The flush of device d goes from one item of the queue it read to the
\* next.
FlushAttempts(d) ==
    /\ job[d].phase = "loop"
    /\ job'[d].phase = "loop"
    /\ job'[d].i = job[d].i + 1

\* What the flush loop does with one item.
C32_Item ==
    \A d \in Devices :
        FlushAttempts(d) =>
           LET fl == job[d]
               item == fl.items[fl.i]
               id == item.entry.id
               log == RelayLog(db[d].vault_id)
               stored == relayEvents' # relayEvents
           IN /\ stored =>
                    /\ ~Has(db'[d].pending, id)
                    /\ Len(relayEvents'[db[d].vault_id]) = Len(log) + 1
                    /\ relayEvents'[db[d].vault_id][Len(log) + 1]
                          .ciphertext.pt = MarshalPayload(item.op, item.entry)
                    /\ job'[d].err = fl.err
                    /\ job'[d].firstErr = fl.firstErr
              /\ ~stored =>
                    /\ Has(db'[d].pending, id)
                    /\ db'[d].pending[id] = item
                    /\ job'[d].err
                    /\ job'[d].firstErr =
                          IF fl.firstErr = << >> THEN <<id>> ELSE fl.firstErr
              /\ \A other \in DOMAIN db[d].pending \ {id} :
                    /\ Has(db'[d].pending, other)
                    /\ db'[d].pending[other] = db[d].pending[other]

\* The flush returns only when it has been through the queue it read.
C32_Returns ==
    \A d \in Devices :
        job[d].phase = "loop" /\ job'[d].phase = "idle"
        => job[d].i = Len(job[d].items) + 1

\* An item whose op is neither upsert nor delete is not pushed and stays.
C32_InvalidOp ==
    \A d \in Members, entry \in Entries, firstErr \in {<< >>, <<0>>} :
        LET f == [s |-> AddPendingEntry(db[d], "rename", entry),
                  n |-> rng[d], sent |-> << >>,
                  err |-> firstErr # << >>, firstErr |-> firstErr]
            g == FlushItem(f, d, [op |-> "rename", entry |-> entry], TRUE)
        IN /\ g.s = f.s
           /\ g.sent = << >>
           /\ g.n = f.n
           /\ g.err
           /\ g.firstErr = IF firstErr = << >> THEN <<entry.id>> ELSE firstErr

\* C32: FlushPendingEntries goes through every item it read, once; an item
\* whose push fails or whose op is neither upsert nor delete stays in
\* pending_entries and the loop goes on; an item whose push succeeds is
\* removed; the call returns the first error it met.
C32_FlushKeepsFailed ==
    /\ [][C32_Item /\ C32_Returns]_vars
    /\ []C32_InvalidOp

\* A flush of two items is through: both pushes failed, both items are
\* still queued, and the first item's error is the one the call returns.
C32_Witness ==
    LET fl == job[Founder]
    IN /\ fl.phase = "loop"
       /\ Len(fl.items) = 2
       /\ fl.i = 3
       /\ fl.firstErr = <<fl.items[1].entry.id>>
       /\ DOMAIN db[Founder].pending =
             {fl.items[1].entry.id, fl.items[2].entry.id}
       /\ Len(RelayLog(db[Founder].vault_id)) = fl.start

\* The claim loop of device d goes on from the claim it is at.
ClaimStep(d) ==
    /\ job[d].phase = "claims"
    /\ job'[d].phase = "claims"
    /\ job'[d].i > job[d].i

\* C33: AcceptPendingInviteClaims passes over a claim of another vault
\* without writing to the relay or the store and goes on; a member_add it
\* submits is for the claim at hand and that claim is of the current
\* vault; an error that is not the already-used error ends the loop at
\* once, with no write for that claim and none after it, and with the
\* ledger and the members admitted before kept.
C33_ClaimLoopFiltering ==
    [][\A d \in Devices :
          /\ ClaimStep(d) =>
                LET jb == job[d]
                    claim == jb.items[jb.i]
                    added == SubSeq(RelayLedgerOf(jb.vault)',
                                    Len(RelayLedgerOf(jb.vault)) + 1,
                                    Len(RelayLedgerOf(jb.vault)'))
                IN /\ claim.vault_id # jb.vault =>
                         /\ relayLedger' = relayLedger
                         /\ db'[d] = db[d]
                         /\ job'[d].i = jb.i + 1
                         /\ ~job'[d].err
                   /\ relayLedger' # relayLedger =>
                         /\ claim.vault_id = jb.vault
                         /\ Len(added) = 1
                         /\ added[1].invite_id = claim.invite_id
                         /\ added[1].subject = claim.device_id
                         /\ \A v \in DOMAIN relayLedger \ {jb.vault} :
                               relayLedger'[v] = relayLedger[v]
                   /\ job'[d].err =>
                         /\ job'[d].i = Len(jb.items) + 1
                         /\ relayLedger' = relayLedger
                         /\ db'[d] = db[d]
                   /\ ~job'[d].err => job'[d].i = jb.i + 1
          /\ job[d].phase = "claims" /\ job[d].err =>
                /\ relayLedger' = relayLedger
                /\ db'[d] = db[d]
                /\ job'[d].phase \in {"claims", "idle"}]_vars

\* A call over two claims is through: the first claim is of the vault the
\* owner left behind and was passed over, the second was admitted.
C33_Witness ==
    LET jb == job[Founder]
    IN /\ jb.phase = "claims"
       /\ jb.i > Len(jb.items)
       /\ Len(jb.items) = 2
       /\ jb.items[1].vault_id # jb.vault
       /\ jb.items[2].vault_id = jb.vault
       /\ Len(RelayLedgerOf(jb.vault)) = Len(jb.ledger) + 1
       /\ ~jb.err

\* The i-th event of the batch d would pull now verifies, decrypts and
\* carries an op that is neither "upsert" nor "delete".
OtherOpAt(d, i) ==
    LET ev == RelayPull(db[d].vault_id, db[d].sync_cursor)[i].ev
    IN /\ EventAccepted(db[d], ev)
       /\ decryptEventPayload(db[d], ev.ciphertext, ev.nonce,
                              ev.key_epoch).op \notin Ops

\* C34: a verified, decryptable event whose op is neither "upsert" nor
\* "delete" leaves the entry map, the deleted set, the tracked records and
\* the entry schemes of the merge as they were, while its seq and lamport
\* are counted: the call that merges a batch ending in such an event
\* stores its seq as sync_cursor and a lamport not below the event's.
C34_OtherOpIgnored ==
    /\ [](\A d \in Members :
            LET batch == RelayPull(db[d].vault_id, db[d].sync_cursor)
            IN \A i \in 1..Len(batch) :
                  LET a == MergeBefore(d, i)
                      b == MergeStep(db[d], a, batch[i])
                  IN OtherOpAt(d, i) =>
                        /\ b.entryMap = a.entryMap
                        /\ b.deletedIDs = a.deletedIDs
                        /\ b.scheme = a.scheme
                        /\ b.entryLamport = a.entryLamport
                        /\ b.entryDeviceID = a.entryDeviceID
                        /\ b.maxSeq = Max(a.maxSeq, batch[i].seq)
                        /\ b.maxLamport = Max(a.maxLamport,
                                              batch[i].ev.lamport))
    /\ [][\A d \in Members :
            LET batch == RelayPull(db[d].vault_id, db[d].sync_cursor)
                n == Len(batch)
            IN /\ PullReturns(d)
               /\ n > 0
               /\ OtherOpAt(d, n)
               => /\ db'[d].sync_cursor = batch[n].seq
                  /\ db'[d].lamport >= batch[n].ev.lamport
                  /\ n = 1 => /\ local'[d] = local[d]
                              /\ db'[d].scheme = db[d].scheme]_vars

\* Device 2 has pulled an upsert of entry 1 and an event of another op
\* about entry 1 after it: the entry is as the upsert left it and the
\* cursor and the lamport are past the second event.
C34_Witness ==
    LET log == RelayLog(db[Joiner].vault_id)
    IN /\ Len(log) = 2
       /\ UnmarshalPayload(log[1].ciphertext.pt).op = "upsert"
       /\ UnmarshalPayload(log[2].ciphertext.pt).op \in OtherOps
       /\ UnmarshalPayload(log[1].ciphertext.pt).entry.id = 1
       /\ UnmarshalPayload(log[2].ciphertext.pt).entry.id = 1
       /\ db[Joiner].sync_cursor = 2
       /\ db[Joiner].lamport > log[2].lamport
       /\ Has(local[Joiner], 1)
       /\ local[Joiner][1] = UnmarshalPayload(log[1].ciphertext.pt).entry

\* What a device with the verified members and the vault key of d and no
\* entries of its own has after one SyncEntries call over the whole log.
OneCall(d) ==
    SyncEntries([db[d] EXCEPT !.sync_cursor = 0, !.scheme = EmptyMap],
                EmptyMap, RelayPull(db[d].vault_id, 0), TRUE).result

\* C35: device 2, which has no entries but the pulled ones and has pulled
\* every event of the log in one call or in several, has the entries that
\* a device with the same verified members and vault key has after one
\* call over the whole log.
C35_BatchIndependent ==
    db[Joiner].sync_cursor = Len(RelayLog(db[Joiner].vault_id))
        => local[Joiner] = OneCall(Joiner)

\* C36: a step of the flush loop removes a record from pending_entries
\* only if the event the relay accepted in this step carries exactly that
\* record's (op, entry); a newer mutation of the same entry id queued by
\* a UI push after the flush read the queue stays queued.
C36_NoLostPending ==
    [][\A d \in Devices :
          FlushAttempts(d) =>
             \A id \in DOMAIN db[d].pending :
                ~Has(db'[d].pending, id) =>
                   LET before == RelayLog(db[d].vault_id)
                       after == RelayLog(db[d].vault_id)'
                   IN /\ Len(after) = Len(before) + 1
                      /\ after[Len(after)].ciphertext.pt
                            = MarshalPayload(db[d].pending[id].op,
                                             db[d].pending[id].entry)]_vars

\* The log of d's vault holds an event of this op about entry id.
Logged(d, op, id) ==
    \E i \in 1..Len(RelayLog(db[d].vault_id)) :
        LET pl == UnmarshalPayload(RelayLog(db[d].vault_id)[i].ciphertext.pt)
        IN pl.op = op /\ pl.entry.id = id

\* Device d applies a SyncNowCompleteMsg in this step.
SyncNowApplied(d) ==
    /\ job[d].phase = "done"
    /\ job[d].msg = "SyncNowCompleteMsg"
    /\ job'[d].phase = "idle"
    /\ ~app[d].locked

\* C37: an entry the user added or deleted while a Sync Now command was
\* running is reflected in the local list after the command's result has
\* been applied.  An entry on the list that the result lacks, with no
\* delete of it in the log, was added after the command copied the list,
\* and stays; an entry off the list that the result has, with no upsert of
\* it in the log, was deleted after the copy, and stays off.
C37_EditsSurviveSync ==
    [][\A d \in Devices :
          SyncNowApplied(d) =>
             \A id \in EntryIDs :
                /\ /\ Has(local[d], id)
                   /\ ~Has(job[d].entries, id)
                   /\ ~Logged(d, "delete", id)
                   => Has(local'[d], id)
                /\ /\ ~Has(local[d], id)
                   /\ Has(job[d].entries, id)
                   /\ ~Logged(d, "upsert", id)
                   => ~Has(local'[d], id)]_vars

\* What JoinVault writes of the vault a device is in.
JoinedState(d) ==
    <<db[d].vault_id, db[d].vault_key, db[d].key_epoch, db[d].member_seq,
      db[d].member_head_hash, db[d].members>>

\* C38: JoinVault is all-or-nothing.  A step in which JoinVault of d has
\* posted its claim either completes the join, storing the vault with the
\* membership head and the members the relay reports, or (it returned an
\* error) leaves vault_id, vault_key, key_epoch, membership_head and
\* verified_members as they were, so that no vault_id is stored without
\* its membership.
C38_JoinAllOrNothing ==
    [][\A d \in Devices :
          Joins(d) =>
             LET v == relayClaims'[Len(relayClaims')].vault_id
                 joined == StoreMembers(db'[d], RelayMembers(v))
             IN \/ /\ db'[d].vault_id = v
                   /\ db'[d].member_seq = joined.member_seq
                   /\ db'[d].member_head_hash = joined.member_head_hash
                   /\ db'[d].members = joined.members
                \/ JoinedState(d)' = JoinedState(d)]_vars

\* The seeding pass of goroutine t returns in this step.
PassReturns(t) ==
    /\ push[t].phase = "clock"
    /\ push'[t].phase = "idle"

\* After the step, entry id is in an accepted event of device d or in
\* d's pending queue.
Covered(d, id) ==
    \/ \E ev \in StoredBy(d)' : UnmarshalPayload(ev.ciphertext.pt).entry.id = id
    \/ Has(db'[d].pending, id)

\* C39: when a seeding pass over the local entries returns (the loop of
\* Setup Sync "create", seedLocalEntriesIfNeeded of Sync Now and Invite
\* Device), every entry of the list is in an accepted event of this device
\* or in pending_entries, also when a push of the pass failed after an
\* earlier one succeeded.
C39_SeedingLeavesNone ==
    [][\A t \in {"setup", "sync"} :
          PassReturns(t) =>
             \A k \in 1..Len(push[t].items) :
                Covered(Founder, push[t].items[k].entry.id)]_vars

\* The i-th event of the log of d's vault is the only event about its
\* entry and is an upsert that d, with the members it has verified now,
\* accepts.
SoleUpsert(d, i) ==
    LET log == RelayLog(db[d].vault_id)
        pl == UnmarshalPayload(log[i].ciphertext.pt)
    IN /\ EventAccepted(db[d], log[i])
       /\ pl.op = "upsert"
       /\ \A k \in 1..Len(log) \ {i} :
             UnmarshalPayload(log[k].ciphertext.pt).entry.id # pl.entry.id

\* C40: an event is not passed over for good.  Device 2 takes its entries
\* from its merges only and a pull fetches the events after sync_cursor,
\* so an event at or before the cursor whose sender device 2 has verified
\* by now was merged when it was pulled, or no later call can merge it:
\* if it is the only event about its entry, the entry is on the list.
C40_SkippedNotLost ==
    \A i \in 1..Len(RelayLog(db[Joiner].vault_id)) :
        i <= db[Joiner].sync_cursor /\ SoleUpsert(Joiner, i)
            => Has(local[Joiner],
                   UnmarshalPayload(RelayLog(db[Joiner].vault_id)[i]
                                       .ciphertext.pt).entry.id)

====
